---- MODULE Spec2Model ----
(***************************************************************************)
(* Model of the FiRe research pipeline: the LangGraph workflow of          *)
(* agents/graph_builder.py (stages, routers, the two asyncio.gather        *)
(* fan-out groups) over the ResearchState of agents/state.py.              *)
(***************************************************************************)
EXTENDS Integers, Sequences, FiniteSets, TLC

VARIABLES
    state,              \* the ResearchState object threaded through the graph
    pc,                 \* node the run loop is about to execute
    executed,           \* sequence of graph nodes entered so far
    labels,             \* router outcomes taken so far, as <<node, label>>
    selected_company,   \* the selected_company argument of run_research_pipeline
    branch,             \* the tasks of the fan-out that runs or was just joined:
                        \* coroutine position, retry attempt, gather result
    pre,                \* the ResearchState as the stage that runs or just
                        \* returned was called with
    rt,                 \* one call through a wrapper made by utils.retry.retry
    rl,                 \* a limiter made by utils.retry.rate_limit and its calls
    fc,                 \* a utils.fallback.FallbackChain and one execute() on it
    sf,                 \* a utils.fallback.ServiceFallback and its calls
    ca,                 \* a utils.cache.FileCache, its directory and its callers
    jc                  \* a utils.cache.JsonFileCache, its file and its calls

\* the objects of utils/, which the stages of the workflow leave alone
utils == <<rt, rl, fc, sf, ca, jc>>

\* the run of the workflow
pipeline == <<state, pc, executed, labels, selected_company, branch, pre>>

vars == <<state, pc, executed, labels, selected_company, branch, pre, rt, rl, fc, sf, ca, jc>>

(***************************************************************************)
(* Bounds of the model.                                                    *)
(***************************************************************************)
MaxMatches == 2         \* longest list of titles the matcher returns in the model
MaxSuggestions == 2     \* longest list of names the suggestion call returns in the model

(***************************************************************************)
(* Optional values: None is the empty tuple, a present value a 1-tuple.    *)
(* Payloads whose content is outside the core are short strings.           *)
(***************************************************************************)
None == <<>>
Some(x) == <<x>>

\* value of a variable that holds an object the running scenario does not use
Unused == <<>>
Absent == "None"
EmptyDict == "{}"
EmptyList == "[]"

\* Python truthiness of a string-coded payload
Truthy(v) == v \notin {Absent, EmptyDict, EmptyList, ""}

(***************************************************************************)
(* CompanyMatch and the derivation of cik10 (agents/state.py).             *)
(***************************************************************************)
Digits == {"0", "1", "2", "3", "4", "5", "6", "7", "8", "9"}

DigitVal(c) ==
    CASE c = "0" -> 0 [] c = "1" -> 1 [] c = "2" -> 2 [] c = "3" -> 3
      [] c = "4" -> 4 [] c = "5" -> 5 [] c = "6" -> 6 [] c = "7" -> 7
      [] c = "8" -> 8 [] c = "9" -> 9

DigitChar(n) ==
    CASE n = 0 -> "0" [] n = 1 -> "1" [] n = 2 -> "2" [] n = 3 -> "3"
      [] n = 4 -> "4" [] n = 5 -> "5" [] n = 6 -> "6" [] n = 7 -> "7"
      [] n = 8 -> "8" [] n = 9 -> "9"

IsNumeric(s) == Len(s) > 0 /\ \A i \in 1..Len(s) : s[i] \in Digits

RECURSIVE ToInt(_)
ToInt(s) ==
    IF s = <<>> THEN 0
    ELSE 10 * ToInt(SubSeq(s, 1, Len(s) - 1)) + DigitVal(s[Len(s)])

RECURSIVE ToDigits(_)
ToDigits(n) ==
    IF n < 10 THEN <<DigitChar(n)>>
    ELSE ToDigits(n \div 10) \o <<DigitChar(n % 10)>>

RECURSIVE PadLeft(_, _)
PadLeft(s, w) == IF Len(s) >= w THEN s ELSE PadLeft(<<"0">> \o s, w)

CikWidth == 10

\* a validator that takes over a cik_str of full width only
compute_cik10_full_width(cik_str) ==
    IF Len(cik_str) = CikWidth /\ IsNumeric(cik_str) THEN Some(cik_str) ELSE None

\* field validator of CompanyMatch.cik10, for a cik10 argument left out
compute_cik10(cik_str) ==
    IF cik_str # <<>>
    THEN IF IsNumeric(cik_str)
         THEN Some(PadLeft(ToDigits(ToInt(cik_str)), CikWidth))
         ELSE None
    ELSE None

\* str.zfill on a string without a sign
zfill(s, w) == PadLeft(s, w)

CompanyMatch(title, ticker, cik_str) ==
    [title |-> title, ticker |-> ticker, cik_str |-> cik_str,
     cik10 |-> compute_cik10(cik_str)]

(***************************************************************************)
(* The identity-reference data and the inputs of a run.                    *)
(***************************************************************************)
\* a loaded ticker list: SEC records carry cik_str as an integer
TickerData ==
    << [title |-> "acme corp",     ticker |-> "ACM",  cik_str |-> 7],
       [title |-> "acme holdings", ticker |-> "ACH",  cik_str |-> 42],
       [title |-> "acme corp",     ticker |-> "ACMW", cik_str |-> 9] >>

TickerLists == { <<>>, TickerData }

CompanyInputs == { "", "acme" }

SelectedCompanies ==
    { CompanyMatch("acme corp", "ACM", <<"7">>),
      CompanyMatch("odd lot", "ODD", <<"x">>) }

\* CompanyMatch built from a ticker record (cik_str=str(ticker_data["cik_str"]))
MatchOfTicker(t) == CompanyMatch(t.title, t.ticker, ToDigits(t.cik_str))

\* the externally supplied selections (text typed by the human), None if there is none
HumanResponses ==
    { None, Some(<<>>), Some(<<"1">>), Some(<<" ", "2">>),
      Some(<<"3">>), Some(<<"0">>), Some(<<"x">>) }

\* a suggested name, by what the title comparison does with it: an exact
\* (case-insensitive) title or not, and the tickers whose title it equals
\* or is in a containment relation with
Suggestions ==
    { [exact |-> TRUE,  hits |-> {1, 3}],
      [exact |-> FALSE, hits |-> {}],
      [exact |-> FALSE, hits |-> {1, 2}] }

SeqsUpTo(S, n) == UNION { [1..k -> S] : k \in 0..n }

(***************************************************************************)
(* PipelineStatus and the initial ResearchState.                           *)
(***************************************************************************)
INITIALIZING == "initializing"
RESEARCH_IN_PROGRESS == "research_in_progress"
COMPLETED == "completed"
FAILED == "failed"

PipelineStatus ==
    { INITIALIZING, "awaiting_hitl", "fetching_data", RESEARCH_IN_PROGRESS,
      "synthesizing", COMPLETED, FAILED }

ResearchState(company_name) ==
    [ company_name |-> company_name,
      status |-> INITIALIZING,
      current_node |-> "start",
      error_message |-> Absent,
      company_tickers |-> <<>>,
      match_options |-> <<>>,
      human_response |-> None,
      found |-> None,
      cik10 |-> None,
      llm_validation_passed |-> FALSE,
      validation_result |-> None,
      llm_suggestions |-> <<>>,
      companyfacts |-> EmptyDict,
      submissions |-> EmptyDict,
      financials_1yr |-> Absent,
      company_profile |-> Absent,
      news_timeline |-> EmptyList,
      social_sentiment |-> Absent,
      competitors |-> EmptyList,
      synthesized_insights |-> Absent,
      report_path |-> Absent ]

(***************************************************************************)
(* Routers and the edge maps of build_graph.                               *)
(***************************************************************************)
END == "END"

\* the initial router with the test of state.found left out
check_if_needs_matching_always_match(s) == "needs_match"

check_if_needs_matching(s) ==
    IF s.found # None THEN "skip_match" ELSE "needs_match"

\* a router that takes a single candidate for granted
should_validate_single_trusted(s) ==
    IF s.found # None THEN "data_collection"
    ELSE IF s.match_options = <<>> THEN "suggest"
    ELSE IF Len(s.match_options) = 1 THEN "data_collection"
    ELSE "validate"

should_validate(s) ==
    IF s.found # None THEN "data_collection"
    ELSE IF s.match_options = <<>> THEN "suggest"
    ELSE "validate"

\* the suggestion router with its two outcomes swapped
check_suggestions_swapped(s) ==
    IF s.match_options # <<>> THEN "end" ELSE "validate"

check_suggestions(s) ==
    IF s.match_options # <<>> THEN "validate" ELSE "end"

should_resolve(s) ==
    IF s.llm_validation_passed THEN "data_collection" ELSE "resolve"

\* the last router returning the node name END where the map has the key "end"
is_resolved_node_for_label(s) ==
    IF s.found # None THEN "data_collection" ELSE END

is_resolved(s) ==
    IF s.found # None THEN "data_collection" ELSE "end"

RouterNodes == {"load_tickers", "match", "suggest", "validate", "resolve"}

Router(node, s) ==
    CASE node = "load_tickers" -> check_if_needs_matching(s)
      [] node = "match"        -> should_validate(s)
      [] node = "suggest"      -> check_suggestions(s)
      [] node = "validate"     -> should_resolve(s)
      [] node = "resolve"      -> is_resolved(s)

\* edges that send a candidate the validation did not accept back to the
\* suggestion stage
EdgeMap_suggesting_again ==
    [ load_tickers |-> [needs_match |-> "match", skip_match |-> "mark_progress"],
      match        |-> [suggest |-> "suggest", validate |-> "validate",
                        data_collection |-> "mark_progress"],
      suggest      |-> [validate |-> "validate", end |-> END],
      validate     |-> [resolve |-> "suggest", data_collection |-> "mark_progress"],
      resolve      |-> [data_collection |-> "mark_progress", end |-> END] ]

\* the label -> node maps given to add_conditional_edges
EdgeMap ==
    [ load_tickers |-> [needs_match |-> "match", skip_match |-> "mark_progress"],
      match        |-> [suggest |-> "suggest", validate |-> "validate",
                        data_collection |-> "mark_progress"],
      suggest      |-> [validate |-> "validate", end |-> END],
      validate     |-> [resolve |-> "resolve", data_collection |-> "mark_progress"],
      resolve      |-> [data_collection |-> "mark_progress", end |-> END] ]

\* edges that mark the run complete before the report is written
Edge_complete_before_report ==
    [ mark_progress |-> "initial_data",
      initial_data  |-> "financials",
      financials    |-> "deep_research",
      deep_research |-> "synthesis",
      synthesis     |-> "mark_complete",
      mark_complete |-> "report",
      report        |-> END ]

\* edges that pass over the extraction stage
Edge_skipping_financials ==
    [ mark_progress |-> "initial_data",
      initial_data  |-> "deep_research",
      financials    |-> "deep_research",
      deep_research |-> "synthesis",
      synthesis     |-> "report",
      report        |-> "mark_complete",
      mark_complete |-> END ]

\* the unconditional edges given to add_edge
Edge ==
    [ mark_progress |-> "initial_data",
      initial_data  |-> "financials",
      financials    |-> "deep_research",
      deep_research |-> "synthesis",
      synthesis     |-> "report",
      report        |-> "mark_complete",
      mark_complete |-> END ]

\* node the engine moves to after `node` returned state s
Goto(node, s) ==
    IF node \in RouterNodes
    THEN IF Router(node, s) \in DOMAIN EdgeMap[node]
         THEN EdgeMap[node][Router(node, s)]
         ELSE "config_error"
    ELSE Edge[node]

\* bookkeeping of the run loop: node entered, router label taken
Enter(node) == executed' = Append(executed, node)

Routed(node, s) ==
    labels' = IF node \in RouterNodes
              THEN labels \cup {<<node, Router(node, s)>>}
              ELSE labels

\* the fan-out groups and their branches, in the order given to gather
GroupA == <<"fetch_sec_data", "fetch_company_profile">>

GroupB == <<"fetch_news_timeline", "identify_competitors",
            "extract_investor_materials", "analyze_social_sentiment">>

Range(f) == { f[i] : i \in DOMAIN f }

Branches == Range(GroupA) \cup Range(GroupB)

NoWrite == <<>>

NewBranch == [bpc |-> "created", attempt |-> 0, result |-> "pending", wrote |-> NoWrite]

IdleBranch == [bpc |-> "idle", attempt |-> 0, result |-> "pending", wrote |-> NoWrite]

\* a sequential stage ran on state s: no task of an earlier gather is left
Sequential(s) ==
    /\ branch' = [b \in Branches |-> IdleBranch]
    /\ pre' = s

\* a stage returned state s: the engine follows the edge out of the node
Return(node, s) ==
    /\ state' = s
    /\ pc' = Goto(node, s)
    /\ Enter(node)
    /\ Routed(node, s)
    /\ Sequential(s)

\* a run loop that records the failure in the state before it gives up
Raise_marks_failed(node, s) ==
    /\ state' = [s EXCEPT !.status = FAILED]
    /\ pc' = "aborted"
    /\ Enter(node)
    /\ Sequential([s EXCEPT !.status = FAILED])
    /\ UNCHANGED labels

\* a run loop that logs the exception of a stage and goes on
Raise_swallowed(node, s) == Return(node, s)

\* a stage raised with the object left as s: the exception leaves the run loop
Raise(node, s) ==
    /\ state' = s
    /\ pc' = "aborted"
    /\ Enter(node)
    /\ Sequential(s)
    /\ UNCHANGED labels

(***************************************************************************)
(* Identity stages: nodes/sec_data.py, nodes/company_suggestions.py,       *)
(* nodes/company_validation.py.                                            *)
(***************************************************************************)
Min(S) == CHOOSE x \in S : \A y \in S : x <= y

Titles(tickers) == { tickers[i].title : i \in DOMAIN tickers }

\* the first record of the list with that title (the inner loop with break)
FirstWithTitle(tickers, title) ==
    tickers[Min({ i \in DOMAIN tickers : tickers[i].title = title })]

load_company_tickers ==
    /\ pc = "load_tickers"
    /\ LET s1 == [state EXCEPT !.current_node = "load_tickers"] IN
         \/ \E tl \in TickerLists :
               Return("load_tickers", [s1 EXCEPT !.company_tickers = tl])
         \/ Raise("load_tickers", s1)      \* request failed on every attempt
    /\ UNCHANGED <<selected_company, utils>>

\* a list of titles the matcher can hand back: get_close_matches and the
\* substring search both pick elements of company_titles, each at most once,
\* so a title comes no more often than the ticker list has it
Picked(matches, tickers) ==
    \A title \in Titles(tickers) :
        Cardinality({ i \in DOMAIN matches : matches[i] = title })
            <= Cardinality({ i \in DOMAIN tickers : tickers[i].title = title })

fuzzy_match_companies ==
    /\ pc = "match"
    /\ LET s1 == [state EXCEPT !.current_node = "fuzzy_match"] IN
         IF s1.company_name = "" \/ s1.company_tickers = <<>>
         THEN Raise("match", s1)
         ELSE \E matches \in { m \in SeqsUpTo(Titles(s1.company_tickers), MaxMatches) :
                                 Picked(m, s1.company_tickers) } :
                 Return("match",
                        [s1 EXCEPT !.match_options =
                            [i \in 1..Len(matches) |->
                                MatchOfTicker(FirstWithTitle(s1.company_tickers,
                                                             matches[i]))]])
    /\ UNCHANGED <<selected_company, utils>>

\* what the suggestion chain can hand back: an exception, or a list of names
SuggestionOutcomes ==
    { [error |-> TRUE, names |-> <<>>] } \cup
    { [error |-> FALSE, names |-> n] : n \in SeqsUpTo(Suggestions, MaxSuggestions) }

suggest_company_names(s, outcome) ==
    LET s1 == [s EXCEPT !.current_node = "suggest_names"] IN
    IF outcome.error
    THEN [s1 EXCEPT !.error_message = "Could not generate suggestions",
                    !.llm_suggestions = <<>>]
    ELSE [s1 EXCEPT !.llm_suggestions = outcome.names]

InList(m, list) == \E k \in 1..Len(list) : list[k] = m

\* the loop over state.llm_suggestions building found_matches
RECURSIVE SearchLoop(_, _, _)
SearchLoop(sugs, tickers, found_matches) ==
    IF sugs = <<>> THEN found_matches
    ELSE LET sg   == Head(sugs)
             hits == sg.hits \cap DOMAIN tickers
             new  == { i \in hits : ~InList(MatchOfTicker(tickers[i]), found_matches) }
             add  == IF hits = {} THEN <<>>
                     ELSE IF sg.exact
                     THEN IF Min(hits) \in new
                          THEN <<MatchOfTicker(tickers[Min(hits)])>> ELSE <<>>
                     ELSE IF new = {} THEN <<>>
                          ELSE <<MatchOfTicker(tickers[Min(new)])>>
         IN SearchLoop(Tail(sugs), tickers, found_matches \o add)

SuggestionLimit == 5

search_suggestions_in_tickers(s) ==
    LET s1 == [s EXCEPT !.current_node = "search_suggestions"] IN
    IF s1.llm_suggestions = <<>> THEN s1
    ELSE IF s1.company_tickers = <<>> THEN s1
    ELSE LET found_matches == SearchLoop(s1.llm_suggestions, s1.company_tickers, <<>>) IN
         IF found_matches # <<>>
         THEN [s1 EXCEPT !.match_options =
                  SubSeq(found_matches, 1,
                         IF Len(found_matches) < SuggestionLimit
                         THEN Len(found_matches) ELSE SuggestionLimit)]
         ELSE s1

suggest_and_search ==
    /\ pc = "suggest"
    /\ \/ \E outcome \in SuggestionOutcomes :
             Return("suggest",
                    search_suggestions_in_tickers(suggest_company_names(state, outcome)))
       \/ Raise("suggest", [state EXCEPT !.current_node = "suggest_names"])
                                            \* the LLM client could not be built
    /\ UNCHANGED <<selected_company, utils>>

\* what the validation chain can hand back: a parsed dict, with or without
\* its keys and in either letter case, or an exception
RawConfidence == {"HIGH", "high", "MEDIUM", "LOW", "missing"}
RawMatch == {"YES", "NO", "missing"}

Upper(w) == IF w = "high" THEN "HIGH" ELSE w

\* result.get(key, default).upper()
GetUpper(raw, default) == IF raw = "missing" THEN default ELSE Upper(raw)

\* an acceptance test that looks at the match answer alone
Accepts_any_confidence(confidence, match_result) == match_result = "YES"

\* the decision of validate_company_match: HIGH confidence + YES
Accepts(confidence, match_result) == confidence = "HIGH" /\ match_result = "YES"

\* the body of validate_company_match once the chain is built; outcome is
\* an exception of the call (error) or the raw values of the parsed dict
validate_company_match_body(s, outcome) ==
    LET s1 == [s EXCEPT !.current_node = "validate_match"] IN
    IF s1.match_options = <<>>
    THEN [s1 EXCEPT !.error_message = "No company matches found"]
    ELSE IF outcome.error
    THEN [s1 EXCEPT !.llm_validation_passed = FALSE,
                    !.error_message = "Validation error"]
    ELSE LET top_match    == s1.match_options[1]
             confidence   == GetUpper(outcome.confidence, "LOW")
             match_result == GetUpper(outcome.match, "NO")
             s2 == [s1 EXCEPT !.validation_result =
                        Some([confidence |-> confidence, match |-> match_result])]
         IN IF Accepts(confidence, match_result)
            THEN [s2 EXCEPT !.found = Some(top_match),
                            !.cik10 = top_match.cik10,
                            !.llm_validation_passed = TRUE]
            ELSE [s2 EXCEPT !.llm_validation_passed = FALSE]

ValidationOutcomes ==
    { [error |-> TRUE, confidence |-> "missing", match |-> "missing"] } \cup
    [error : {FALSE}, confidence : RawConfidence, match : RawMatch]

validate_company_match ==
    /\ pc = "validate"
    /\ \/ \E outcome \in ValidationOutcomes :
             Return("validate", validate_company_match_body(state, outcome))
       \/ Raise("validate", [state EXCEPT !.current_node = "validate_match"])
                                            \* the LLM client could not be built
    /\ UNCHANGED <<selected_company, utils>>

\* str.strip() on the characters of the model
RECURSIVE LStrip(_)
LStrip(s) == IF s # <<>> /\ Head(s) = " " THEN LStrip(Tail(s)) ELSE s

RECURSIVE RStrip(_)
RStrip(s) ==
    IF s # <<>> /\ s[Len(s)] = " " THEN RStrip(SubSeq(s, 1, Len(s) - 1)) ELSE s

Strip(s) == RStrip(LStrip(s))

\* a range test without the lower bound: selection "0" gives index -1,
\* which Python takes as the last element of the list
resolve_company_selection_body_wrapping(s) ==
    LET s1 == [s EXCEPT !.current_node = "resolve"] IN
    IF s1.human_response = None \/ s1.human_response = Some(<<>>)
    THEN [raised |-> TRUE, state |-> s1]
    ELSE IF s1.match_options = <<>>
    THEN [raised |-> TRUE, state |-> s1]
    ELSE IF ~IsNumeric(Strip(s1.human_response[1]))
    THEN [raised |-> TRUE, state |-> s1]
    ELSE LET selection_index == ToInt(Strip(s1.human_response[1])) - 1 IN
         IF selection_index >= Len(s1.match_options)
         THEN [raised |-> TRUE, state |-> s1]
         ELSE LET selected == IF selection_index < 0
                              THEN s1.match_options[Len(s1.match_options)]
                              ELSE s1.match_options[selection_index + 1] IN
              [raised |-> FALSE,
               state |-> [s1 EXCEPT !.found = Some(selected),
                                    !.cik10 = selected.cik10]]

\* a resolution that takes the top candidate whatever number was typed
resolve_company_selection_body_top(s) ==
    LET s1 == [s EXCEPT !.current_node = "resolve"] IN
    IF s1.human_response = None \/ s1.human_response = Some(<<>>)
    THEN [raised |-> TRUE, state |-> s1]
    ELSE IF s1.match_options = <<>>
    THEN [raised |-> TRUE, state |-> s1]
    ELSE IF ~IsNumeric(Strip(s1.human_response[1]))
    THEN [raised |-> TRUE, state |-> s1]
    ELSE LET selection_index == ToInt(Strip(s1.human_response[1])) - 1 IN
         IF selection_index < 0 \/ selection_index >= Len(s1.match_options)
         THEN [raised |-> TRUE, state |-> s1]
         ELSE LET selected == s1.match_options[1] IN
              [raised |-> FALSE,
               state |-> [s1 EXCEPT !.found = Some(selected),
                                    !.cik10 = selected.cik10]]

\* a resolution that returns the state as it is when the number typed is
\* out of range
resolve_company_selection_body_lenient(s) ==
    LET s1 == [s EXCEPT !.current_node = "resolve"] IN
    IF s1.human_response = None \/ s1.human_response = Some(<<>>)
    THEN [raised |-> TRUE, state |-> s1]
    ELSE IF s1.match_options = <<>>
    THEN [raised |-> TRUE, state |-> s1]
    ELSE IF ~IsNumeric(Strip(s1.human_response[1]))
    THEN [raised |-> TRUE, state |-> s1]
    ELSE LET selection_index == ToInt(Strip(s1.human_response[1])) - 1 IN
         IF selection_index < 0 \/ selection_index >= Len(s1.match_options)
         THEN [raised |-> FALSE, state |-> s1]
         ELSE LET selected == s1.match_options[selection_index + 1] IN
              [raised |-> FALSE,
               state |-> [s1 EXCEPT !.found = Some(selected),
                                    !.cik10 = selected.cik10]]

\* resolve_company_selection on a state carrying the human's response:
\* [raised, state]
resolve_company_selection_body(s) ==
    LET s1 == [s EXCEPT !.current_node = "resolve"] IN
    IF s1.human_response = None \/ s1.human_response = Some(<<>>)
    THEN [raised |-> TRUE, state |-> s1]
    ELSE IF s1.match_options = <<>>
    THEN [raised |-> TRUE, state |-> s1]
    ELSE IF ~IsNumeric(Strip(s1.human_response[1]))
    THEN [raised |-> TRUE, state |-> s1]
    ELSE LET selection_index == ToInt(Strip(s1.human_response[1])) - 1 IN
         IF selection_index < 0 \/ selection_index >= Len(s1.match_options)
         THEN [raised |-> TRUE, state |-> s1]
         ELSE LET selected == s1.match_options[selection_index + 1] IN
              [raised |-> FALSE,
               state |-> [s1 EXCEPT !.found = Some(selected),
                                    !.cik10 = selected.cik10]]

resolve_company_selection ==
    /\ pc = "resolve"
    /\ \E h \in HumanResponses :
          LET r == resolve_company_selection_body([state EXCEPT !.human_response = h]) IN
          IF r.raised THEN Raise("resolve", r.state) ELSE Return("resolve", r.state)
    /\ UNCHANGED <<selected_company, utils>>

\* a stage that marks the run with the status of the data collection
mark_in_progress_fetching ==
    /\ pc = "mark_progress"
    /\ Return("mark_progress", [state EXCEPT !.status = "fetching_data"])
    /\ UNCHANGED <<selected_company, utils>>

mark_in_progress ==
    /\ pc = "mark_progress"
    /\ Return("mark_progress", [state EXCEPT !.status = RESEARCH_IN_PROGRESS])
    /\ UNCHANGED <<selected_company, utils>>

(***************************************************************************)
(* Fan-out groups: parallel_initial_data and parallel_deep_research run    *)
(* their branches with asyncio.gather(..., return_exceptions=True).  Every *)
(* branch is called with the same ResearchState object, so a branch's      *)
(* assignments to state.<field> act on the shared object at once.  A       *)
(* branch action is one run of the coroutine between two suspensions.      *)
(***************************************************************************)
IndexIn(group, b) == CHOOSE i \in DOMAIN group : group[i] = b

\* gather wraps the coroutines into tasks in argument order, and the loop
\* starts them in that order: a task first runs after the ones before it
MayStart(group, b) ==
    /\ branch[b].bpc = "created"
    /\ \A i \in 1..(IndexIn(group, b) - 1) : branch[group[i]].bpc # "created"

\* a suspended task is resumed by a callback queued behind the first runs
\* of all tasks of the group: it goes on only after every task has started
MayResume(group, b, at) ==
    /\ branch[b].bpc \in at
    /\ \A i \in DOMAIN group : branch[group[i]].bpc # "created"

\* the assignments state.<field> = value of a piece of a branch, applied to
\* the object the branch was called with
Assign(s, w) ==
    [s EXCEPT
        !.current_node    = IF "current_node" \in DOMAIN w THEN w["current_node"] ELSE @,
        !.companyfacts    = IF "companyfacts" \in DOMAIN w THEN w["companyfacts"] ELSE @,
        !.submissions     = IF "submissions" \in DOMAIN w THEN w["submissions"] ELSE @,
        !.company_profile = IF "company_profile" \in DOMAIN w THEN w["company_profile"] ELSE @,
        !.news_timeline   = IF "news_timeline" \in DOMAIN w THEN w["news_timeline"] ELSE @,
        !.competitors     = IF "competitors" \in DOMAIN w THEN w["competitors"] ELSE @,
        !.social_sentiment = IF "social_sentiment" \in DOMAIN w THEN w["social_sentiment"] ELSE @]

\* the object a branch assigns to: the ResearchState it was called with,
\* which is the coordinator's own (no copy is made for a branch)
BranchTarget(shared, w) == Assign(shared, w)

\* one piece of branch b: it makes the assignments w, then is suspended at
\* `to`, or ends ("done") with result res; wrote keeps, per field, the
\* value the branch assigned last
Do(b, w, to, res) ==
    /\ state' = BranchTarget(state, w)
    /\ branch' = [branch EXCEPT ![b] =
                    [bpc |-> to,
                     attempt |-> IF to = "done" THEN 0 ELSE branch[b].attempt,
                     result |-> res,
                     wrote |-> w @@ branch[b].wrote]]

Step(b, w, to) == Do(b, w, to, "pending")

\* the task ends: with the returned object, or with the exception it raised
Finish(b, w, res) == Do(b, w, "done", res)

AllDone(group) == \A i \in DOMAIN group : branch[group[i]].bpc = "done"

\* gather without return_exceptions: an exception of a task is raised out
\* of the await
GatherRaises_propagating(group, br) ==
    \E i \in DOMAIN group : br[group[i]].result = "exception"

\* what gather does with an exception of a task: with return_exceptions=True
\* it is put in the result list, never raised out of the await
GatherRaises(group, br) == FALSE

Launch(node, group) ==
    /\ pc = node
    /\ pc' = IF node = "initial_data" THEN "initial_data.gather"
                                      ELSE "deep_research.gather"
    /\ pre' = state
    /\ branch' = [b \in Branches |->
                     IF b \in Range(group) THEN NewBranch ELSE branch[b]]
    /\ Enter(node)
    /\ UNCHANGED <<state, labels, selected_company, utils>>

InGroupA == pc = "initial_data.gather"
InGroupB == pc = "deep_research.gather"

BranchFrame == UNCHANGED <<pc, executed, labels, selected_company, pre, utils>>

(* ---- Group A, branch 1: fetch_sec_data under @retry and @rate_limit ---- *)
SecMaxAttempts == 3

CikPresent(s) == s.cik10 # None /\ s.cik10[1] # <<>>

\* start of the body of fetch_sec_data, up to the first request
SecBodyStart(b) ==
    IF ~CikPresent(state)
    THEN Finish(b, "current_node" :> "sec_fetch", "exception")   \* ValueError, not retried
    ELSE Step(b, "current_node" :> "sec_fetch", "get_companyfacts")

\* the except clause of retry.async_wrapper for a ClientError
SecRetry(b) ==
    /\ UNCHANGED state
    /\ IF branch[b].attempt = SecMaxAttempts - 1
       THEN branch' = [branch EXCEPT ![b].bpc = "done", ![b].attempt = 0,
                                     ![b].result = "exception"]
       ELSE branch' = [branch EXCEPT ![b].bpc = "backoff",
                                     ![b].attempt = branch[b].attempt + 1]

fetch_sec_data_enter ==
    /\ InGroupA
    /\ MayStart(GroupA, "fetch_sec_data")
    /\ \/ Step("fetch_sec_data", NoWrite, "rate_sleep")    \* elapsed < min_interval
       \/ SecBodyStart("fetch_sec_data")
    /\ BranchFrame

fetch_sec_data_wake ==
    /\ InGroupA
    /\ MayResume(GroupA, "fetch_sec_data", {"rate_sleep", "backoff"})
    /\ SecBodyStart("fetch_sec_data")
    /\ BranchFrame

FactsPayloads == {"facts"}
SubmissionsPayloads == {"submissions"}

fetch_sec_data_companyfacts ==
    /\ InGroupA
    /\ MayResume(GroupA, "fetch_sec_data", {"get_companyfacts"})
    /\ \/ \E v \in FactsPayloads :
             Step("fetch_sec_data", "companyfacts" :> v, "get_submissions")
       \/ SecRetry("fetch_sec_data")                        \* aiohttp.ClientError
       \/ Finish("fetch_sec_data", NoWrite, "exception")    \* any other exception
    /\ BranchFrame

fetch_sec_data_submissions ==
    /\ InGroupA
    /\ MayResume(GroupA, "fetch_sec_data", {"get_submissions"})
    /\ \/ \E v \in SubmissionsPayloads :
             Finish("fetch_sec_data", "submissions" :> v, "state")
       \/ SecRetry("fetch_sec_data")
       \/ Finish("fetch_sec_data", NoWrite, "exception")
    /\ BranchFrame

(* ---- Group A, branch 2: fetch_company_profile ---- *)
fetch_company_profile_enter ==
    /\ InGroupA
    /\ MayStart(GroupA, "fetch_company_profile")
    /\ LET b  == "fetch_company_profile"
           w1 == "current_node" :> "web_profile" IN
       IF state.found = None
       THEN Finish(b, w1, "state")
       ELSE \/ Finish(b, w1, "exception")      \* every search strategy raised
            \/ Step(b, w1, "fetch_url")
            \/ Finish(b, w1 @@ ("company_profile" :> "profile"), "state")
                                               \* no search result: nothing awaited
    /\ BranchFrame

fetch_company_profile_fetched ==
    /\ InGroupA
    /\ MayResume(GroupA, "fetch_company_profile", {"fetch_url"})
    /\ LET b == "fetch_company_profile" IN
         \/ Finish(b, NoWrite, "exception")    \* second search raised
         \/ Step(b, NoWrite, "llm_extract")
         \/ Finish(b, "company_profile" :> "profile", "state")   \* empty profile text
    /\ BranchFrame

fetch_company_profile_extracted ==
    /\ InGroupA
    /\ MayResume(GroupA, "fetch_company_profile", {"llm_extract"})
    /\ LET b == "fetch_company_profile" IN
         \/ Finish(b, "company_profile" :> "profile", "state")
         \/ Finish(b, NoWrite, "exception")    \* CompanyProfile(...) rejected
    /\ BranchFrame

(* ---- Group B: the four research branches ---- *)
NewsPayloads == {EmptyList, "news"}
CompetitorPayloads == {EmptyList, "competitors"}

\* no await in fetch_news_timeline: the coroutine runs through in one piece
fetch_news_timeline ==
    /\ InGroupB
    /\ MayStart(GroupB, "fetch_news_timeline")
    /\ LET b  == "fetch_news_timeline"
           w1 == "current_node" :> "news" IN
       IF state.found = None
       THEN Finish(b, w1, "state")
       ELSE \/ Finish(b, w1, "exception")
            \/ \E v \in NewsPayloads :
                  Finish(b, w1 @@ ("news_timeline" :> v), "state")
    /\ BranchFrame

identify_competitors_enter ==
    /\ InGroupB
    /\ MayStart(GroupB, "identify_competitors")
    /\ LET b  == "identify_competitors"
           w1 == "current_node" :> "competitors" IN
       IF state.found = None
       THEN Finish(b, w1, "state")
       ELSE \/ Finish(b, w1, "exception")
            \/ Step(b, w1, "llm_extract")
            \/ Finish(b, w1 @@ ("competitors" :> EmptyList), "state")
                                               \* empty search context
    /\ BranchFrame

identify_competitors_extracted ==
    /\ InGroupB
    /\ MayResume(GroupB, "identify_competitors", {"llm_extract"})
    /\ \E v \in CompetitorPayloads :
          Finish("identify_competitors", "competitors" :> v, "state")
    /\ BranchFrame

\* no await in extract_investor_materials; it extends the investor_docs of
\* the CompanyProfile object in place
extract_investor_materials ==
    /\ InGroupB
    /\ MayStart(GroupB, "extract_investor_materials")
    /\ LET b  == "extract_investor_materials"
           w1 == "current_node" :> "investor_docs" IN
       IF ~Truthy(state.submissions)
       THEN Finish(b, w1, "state")
       ELSE \/ Finish(b, w1, "state")          \* no recent filings
            \/ Finish(b, w1, "exception")      \* malformed submissions
            \/ Finish(b, IF Truthy(state.company_profile)
                         THEN w1 @@ ("company_profile" :> "profile+filings")
                         ELSE w1,
                      "state")
    /\ BranchFrame

analyze_social_sentiment_enter ==
    /\ InGroupB
    /\ MayStart(GroupB, "analyze_social_sentiment")
    /\ LET b  == "analyze_social_sentiment"
           w1 == "current_node" :> "sentiment" IN
       IF state.found = None
       THEN Finish(b, w1, "state")
       ELSE \/ Finish(b, w1 @@ ("social_sentiment" :> "no_snippets"), "state")
            \/ Step(b, w1, "analyze_batch")
    /\ BranchFrame

analyze_social_sentiment_aggregate ==
    /\ InGroupB
    /\ MayResume(GroupB, "analyze_social_sentiment", {"analyze_batch"})
    /\ LET b == "analyze_social_sentiment" IN
         \/ Finish(b, "social_sentiment" :> "sentiment", "state")
         \/ Finish(b, NoWrite, "exception")    \* malformed batch results
    /\ BranchFrame

(* ---- the coordinators ---- *)
\* the object a finished branch returned: `return state` hands back the
\* object the branch was called with, the shared one
ReturnedObject(shared, b) == shared

\* one round of the merge loop of parallel_initial_data
MergeInitialStep(s, b, br) ==
    IF br[b].result = "exception" THEN s
    ELSE LET result == ReturnedObject(s, b) IN
         [s EXCEPT
            !.companyfacts = IF Truthy(result.companyfacts)
                             THEN result.companyfacts ELSE @,
            !.submissions = IF Truthy(result.submissions)
                            THEN result.submissions ELSE @,
            !.company_profile = IF Truthy(result.company_profile)
                                THEN result.company_profile ELSE @]

\* one round of the merge loop of parallel_deep_research (investor_docs is
\* no field of ResearchState: hasattr(result, 'investor_docs') is false)
MergeDeepStep(s, b, br) ==
    IF br[b].result = "exception" THEN s
    ELSE LET result == ReturnedObject(s, b) IN
         [s EXCEPT
            !.news_timeline = IF Truthy(result.news_timeline)
                              THEN result.news_timeline ELSE @,
            !.competitors = IF Truthy(result.competitors)
                            THEN result.competitors ELSE @,
            !.social_sentiment = IF Truthy(result.social_sentiment)
                                 THEN result.social_sentiment ELSE @]

RECURSIVE MergeLoop(_, _, _, _)
MergeLoop(s, group, br, i) ==
    IF i > Len(group) THEN s
    ELSE MergeLoop(IF group = GroupA THEN MergeInitialStep(s, group[i], br)
                                     ELSE MergeDeepStep(s, group[i], br),
                   group, br, i + 1)

Join(node, group) ==
    /\ AllDone(group)
    /\ IF GatherRaises(group, branch)
       THEN /\ state' = state
            /\ pc' = "aborted"
       ELSE /\ state' = MergeLoop(state, group, branch, 1)
            /\ pc' = Goto(node, state')
    /\ UNCHANGED <<executed, labels, selected_company, branch, pre, utils>>

parallel_initial_data == Launch("initial_data", GroupA)

parallel_initial_data_merge == InGroupA /\ Join("initial_data", GroupA)

parallel_deep_research == Launch("deep_research", GroupB)

parallel_deep_research_merge == InGroupB /\ Join("deep_research", GroupB)

(***************************************************************************)
(* The stages after the fan-outs.                                          *)
(***************************************************************************)
extract_financial_statements ==
    /\ pc = "financials"
    /\ LET s1 == [state EXCEPT !.current_node = "extract_financials"] IN
       IF ~Truthy(state.companyfacts)
       THEN Return("financials", s1)
       ELSE \/ Return("financials", s1)                  \* no us-gaap facts
            \/ Return("financials", [s1 EXCEPT !.financials_1yr = "statements"])
            \/ Raise("financials", s1)                   \* malformed facts
    /\ UNCHANGED <<selected_company, utils>>

synthesize_research ==
    /\ pc = "synthesis"
    /\ LET s1 == [state EXCEPT !.current_node = "synthesis"] IN
       IF state.found = None
       THEN Return("synthesis", s1)
       ELSE \/ Return("synthesis", [s1 EXCEPT !.synthesized_insights = "synthesis"])
            \/ Return("synthesis",
                      [s1 EXCEPT !.synthesized_insights = "Failed to generate synthesis.",
                                 !.error_message = "Synthesis node failed"])
    /\ UNCHANGED <<selected_company, utils>>

generate_report ==
    /\ pc = "report"
    /\ LET s1 == [state EXCEPT !.current_node = "report"] IN
         \/ Return("report", [s1 EXCEPT !.report_path = "report.md"])
         \/ Return("report", [s1 EXCEPT !.error_message = "Report generation failed"])
    /\ UNCHANGED <<selected_company, utils>>

mark_complete ==
    /\ pc = "mark_complete"
    /\ Return("mark_complete", [state EXCEPT !.status = COMPLETED])
    /\ UNCHANGED <<selected_company, utils>>

(***************************************************************************)
(* run_research_pipeline: the initial state and the run loop.              *)
(***************************************************************************)
InitialState(company_input, sel) ==
    IF sel # None
    THEN [ResearchState(company_input) EXCEPT
             !.found = sel,
             !.cik10 = Some(zfill(sel[1].cik_str, CikWidth))]
    ELSE ResearchState(company_input)

Init ==
    \E company_input \in CompanyInputs :
    \E sel \in {None} \cup { Some(c) : c \in SelectedCompanies } :
        /\ selected_company = sel
        /\ state = InitialState(company_input, sel)
        /\ pc = "load_tickers"
        /\ executed = <<>>
        /\ labels = {}
        /\ branch = [b \in Branches |-> IdleBranch]
        /\ pre = InitialState(company_input, sel)
        /\ rt = Unused
        /\ rl = Unused
        /\ fc = Unused
        /\ sf = Unused
        /\ ca = Unused
        /\ jc = Unused

Next ==
    \/ load_company_tickers
    \/ fuzzy_match_companies
    \/ suggest_and_search
    \/ validate_company_match
    \/ resolve_company_selection
    \/ mark_in_progress
    \/ parallel_initial_data
    \/ fetch_sec_data_enter
    \/ fetch_sec_data_wake
    \/ fetch_sec_data_companyfacts
    \/ fetch_sec_data_submissions
    \/ fetch_company_profile_enter
    \/ fetch_company_profile_fetched
    \/ fetch_company_profile_extracted
    \/ parallel_initial_data_merge
    \/ extract_financial_statements
    \/ parallel_deep_research
    \/ fetch_news_timeline
    \/ identify_competitors_enter
    \/ identify_competitors_extracted
    \/ extract_investor_materials
    \/ analyze_social_sentiment_enter
    \/ analyze_social_sentiment_aggregate
    \/ parallel_deep_research_merge
    \/ synthesize_research
    \/ generate_report
    \/ mark_complete

Spec == Init /\ [][Next]_vars

\* what run_research_pipeline hands to its caller: the state of the last
\* node once the loop over graph.astream is through, nothing while the loop
\* runs or when an exception has left it
final_state == IF pc = END THEN Some(state) ELSE None

(***************************************************************************)
(* Properties.                                                             *)
(***************************************************************************)
Last(seq) == seq[Len(seq)]

JustRan(node) == executed # <<>> /\ Last(executed) = node

Ran(node) == \E i \in 1..Len(executed) : executed[i] = node

NoIdentityGiven == selected_company = None

\* C1: in every reachable ResearchState each of the five routers yields a
\* label that is a key of the edge map build_graph declares for its node
\* (a router is an operator of the state: applying it again gives the same
\* label and leaves the state as it is).
RouterLabelsDeclared ==
    \A node \in RouterNodes : Router(node, state) \in DOMAIN EdgeMap[node]

\* a run in which all five routers were consulted
AllRoutersConsulted ==
    \A node \in RouterNodes : \E l \in DOMAIN EdgeMap[node] : <<node, l>> \in labels

\* C2: without a pre-resolved identity, when the matching stage leaves
\* candidates (even a single one) the next stage is validate, and
\* mark_progress is never entered unless validate was entered before it.
MandatoryValidation ==
    NoIdentityGiven =>
        /\ (JustRan("match") /\ state.match_options # <<>>) => pc = "validate"
        /\ \A i \in 1..Len(executed) :
              executed[i] = "mark_progress" =>
                  \E j \in 1..(i - 1) : executed[j] = "validate"

\* the matcher left exactly one candidate and the run is about to validate it
SingleCandidateValidated ==
    /\ NoIdentityGiven
    /\ JustRan("match")
    /\ Len(state.match_options) = 1
    /\ pc = "validate"

HighYes == Some([confidence |-> "HIGH", match |-> "YES"])

\* C3: after validate the run goes on to mark_progress without human
\* resolution only when the validation reported HIGH and YES; after any
\* other outcome llm_validation_passed is false and resolve is next.
ValidationGate ==
    /\ (JustRan("validate") /\ pc # "aborted") =>
          IF state.validation_result = HighYes
          THEN state.llm_validation_passed /\ pc = "mark_progress"
          ELSE ~state.llm_validation_passed /\ pc = "resolve"
    /\ (NoIdentityGiven /\ Ran("mark_progress") /\ ~Ran("resolve")) =>
          state.validation_result = HighYes

\* validation said YES with less than HIGH confidence and resolve is next
LowerConfidenceNeedsHuman ==
    /\ JustRan("validate")
    /\ state.validation_result = Some([confidence |-> "MEDIUM", match |-> "YES"])
    /\ ~state.llm_validation_passed
    /\ pc = "resolve"

IdentityStages == {"match", "suggest", "validate", "resolve"}

\* C4: in a run started with selected_company none of match, suggest,
\* validate and resolve is entered, and the stage after load_tickers is
\* mark_progress.
PreResolvedSkipsMatching ==
    ~NoIdentityGiven =>
        /\ \A i \in 1..Len(executed) : executed[i] \notin IdentityStages
        /\ (JustRan("load_tickers") /\ pc # "aborted") => pc = "mark_progress"
        /\ Len(executed) >= 2 => executed[2] = "mark_progress"

\* a run with a pre-resolved identity that got past load_tickers
PreResolvedStarted ==
    /\ ~NoIdentityGiven
    /\ Len(executed) >= 2
    /\ executed[1] = "load_tickers"
    /\ executed[2] = "mark_progress"

\* C5: when suggest returns with match_options still empty the run ends at
\* the suggest -> end edge: no stage is entered after suggest.
NoCandidatesEndsRun ==
    (Ran("suggest") /\ state.match_options = <<>> /\ pc # "aborted") =>
        /\ pc = END
        /\ executed = <<"load_tickers", "match", "suggest">>
        /\ <<"suggest", "end">> \in labels

\* suggest returned, nothing matched, the run is over
EndedWithoutCandidates ==
    /\ pc = END
    /\ JustRan("suggest")
    /\ state.match_options = <<>>
    /\ state.llm_suggestions # <<>>

(* ---- fan-out ---- *)
BranchFields ==
    {"current_node", "companyfacts", "submissions", "company_profile",
     "news_timeline", "competitors", "social_sentiment"}

\* the merge of a group has just run (pre still is the state at its launch)
AfterJoin(group) == IF group = GroupA THEN pc = "financials" ELSE pc = "synthesis"

Raised(b) == branch[b].result = "exception"
Returned(b) == branch[b].result = "state"

\* C6: after Group A, the fields of a branch that raised have their
\* pre-fan-out value, also when it failed part-way; the other branch's
\* fields are merged.
FailedBranchLeavesItsFields ==
    AfterJoin(GroupA) =>
        /\ Raised("fetch_sec_data") =>
              /\ state.companyfacts = pre.companyfacts
              /\ state.submissions = pre.submissions
        /\ Raised("fetch_company_profile") =>
              state.company_profile = pre.company_profile
        /\ (Returned("fetch_sec_data") /\ "submissions" \in DOMAIN branch["fetch_sec_data"].wrote) =>
              state.submissions = branch["fetch_sec_data"].wrote["submissions"]
        /\ (Returned("fetch_company_profile")
                /\ "company_profile" \in DOMAIN branch["fetch_company_profile"].wrote) =>
              state.company_profile = branch["fetch_company_profile"].wrote["company_profile"]

Max(S) == CHOOSE x \in S : \A y \in S : x >= y

\* the value of field f when what each branch assigned is applied to the
\* pre-fan-out state in the declaration order of the branches
DeclarationOrderValue(group, f) ==
    LET writers == { i \in DOMAIN group : f \in DOMAIN branch[group[i]].wrote } IN
    IF writers = {} THEN pre[f] ELSE branch[group[Max(writers)]].wrote[f]

\* C7: the state after a fan-out group is fixed by what each branch did and
\* by the declaration order of the branches, whatever the order in which
\* the branches ran and completed.
MergeFollowsDeclarationOrder ==
    \A group \in {GroupA, GroupB} :
        AfterJoin(group) =>
            \A f \in BranchFields : state[f] = DeclarationOrderValue(group, f)

\* C8: while a fan-out group runs no branch changes the shared
\* ResearchState; it changes only in the coordinator's merge.
BranchesLeaveSharedState ==
    [][((InGroupA \/ InGroupB) /\ pc' = pc) => state' = state]_vars

\* C9: a fan-out stage never raises, whichever of its branches raised: the
\* run is never aborted out of initial_data or deep_research, and goes on
\* with the next stage.
FanOutNeverRaises ==
    /\ JustRan("initial_data") => pc \in {"initial_data.gather", "financials"}
    /\ JustRan("deep_research") => pc \in {"deep_research.gather", "synthesis"}
    /\ (InGroupA /\ AllDone(GroupA)) => ~GatherRaises(GroupA, branch)
    /\ (InGroupB /\ AllDone(GroupB)) => ~GatherRaises(GroupB, branch)

\* a completed run in which both branches of Group A and the sentiment
\* branch of Group B raised: with found set, a branch that returns leaves
\* submissions, company_profile or social_sentiment present
CompletedDespiteFailures ==
    /\ pc = END
    /\ state.status = COMPLETED
    /\ state.found # None
    /\ state.submissions = EmptyDict
    /\ state.company_profile = Absent
    /\ state.social_sentiment = Absent

\* C10: after the merge a field differs from its pre-fan-out value only if
\* a branch that returned a result produced a present value for it; a
\* branch that raised, or that returned an empty value, changed nothing.
MergeTakesOnlyPresentResults ==
    \A group \in {GroupA, GroupB} :
        AfterJoin(group) =>
            /\ \A f \in BranchFields :
                  state[f] # pre[f] =>
                      /\ Truthy(state[f])
                      /\ \E i \in DOMAIN group :
                            /\ Returned(group[i])
                            /\ f \in DOMAIN branch[group[i]].wrote
                            /\ branch[group[i]].wrote[f] = state[f]
            /\ \A f \in (DOMAIN state) \ BranchFields : state[f] = pre[f]

(* ---- errors, status and the stages after mark_in_progress ---- *)
\* the text typed by the human selects none of the options: there is none,
\* it is no number, or the number is outside 1..len(options)
IsSelection(h, options) ==
    /\ h # None
    /\ IsNumeric(Strip(h[1]))
    /\ ToInt(Strip(h[1])) \in 1..Len(options)

\* C25: when resolve_selection runs with a human selection that is absent,
\* no number or outside 1..len(match_options), the stage raises: the run is
\* aborted with resolve as the last stage executed, found and cik10 are as
\* before the stage, and no step follows.
InvalidSelectionAborts ==
    /\ [][(pc = "resolve" /\ ~IsSelection(state'.human_response, state.match_options)) =>
            /\ pc' = "aborted"
            /\ executed' = Append(executed, "resolve")
            /\ state'.found = state.found
            /\ state'.cik10 = state.cik10]_vars
    /\ [][pc # "aborted"]_vars

\* the human typed 0 with candidates on the list, and the run was aborted
\* with no company chosen
SelectionZeroAborted ==
    /\ pc = "aborted"
    /\ JustRan("resolve")
    /\ state.human_response = Some(<<"0">>)
    /\ Len(state.match_options) = 2
    /\ state.found = None

NothingAfterCompleted ==
    /\ [](state.status = COMPLETED => (pc = END /\ JustRan("mark_complete")))
    /\ [][state.status # COMPLETED]_vars

\* a run completed with a report written
CompletedWithReport ==
    /\ state.status = COMPLETED
    /\ state.report_path # Absent
    /\ pc = END

\* C28: status is FAILED in no reachable state, also not after a stage
\* raised and the run was aborted.
NeverFailedStatus == state.status # FAILED /\ pre.status # FAILED

\* the extraction stage raised after the research had begun
AbortedInProgress ==
    /\ pc = "aborted"
    /\ JustRan("financials")
    /\ state.status = RESEARCH_IN_PROGRESS

\* C29: an exception a stage does not catch leaves run_research_pipeline:
\* match_candidates called without a company name or without tickers
\* raises, the run is aborted with that stage the last one executed,
\* nothing follows an abort, and no state is handed to the caller.
UncaughtExceptionAbortsRun ==
    /\ [][(pc = "match" /\ (state.company_name = "" \/ state.company_tickers = <<>>)) =>
            /\ pc' = "aborted"
            /\ executed' = Append(executed, "match")]_vars
    /\ [](pc = "aborted" => final_state = None)
    /\ [][pc # "aborted"]_vars

\* match_candidates raised for want of a ticker list
MatchRaisedWithoutTickers ==
    /\ pc = "aborted"
    /\ JustRan("match")
    /\ state.company_name # ""
    /\ state.company_tickers = <<>>
    /\ final_state = None

\* the stages after mark_in_progress, in the order of their edges
TailStages ==
    <<"initial_data", "financials", "deep_research", "synthesis", "report", "mark_complete">>

\* the stages whose outgoing edge is add_edge, not add_conditional_edges
UnroutedStages == Range(TailStages) \cup {"mark_progress"}

\* the stages executed after mark_in_progress
AfterMarkProgress ==
    LET i == CHOOSE k \in 1..Len(executed) : executed[k] = "mark_progress" IN
    SubSeq(executed, i + 1, Len(executed))

\* every task of the group has ended, with a result or with an exception
AllEnded(group) ==
    \A i \in DOMAIN group :
        branch[group[i]].bpc = "done" /\ branch[group[i]].result \in {"state", "exception"}

\* C30: after mark_in_progress the stages initial_data_fanout,
\* extract_financials, deep_research_fanout, synthesize, generate_report and
\* mark_complete are executed once each and in that order, with no router
\* label taken for them; the stage after a fan-out is up only when every
\* task of the group has ended; and a run that reaches the end has run all
\* six and has status COMPLETED.
TailStagesInOrder ==
    /\ \A l \in labels : l[1] \notin UnroutedStages
    /\ Ran("mark_progress") =>
          LET after == AfterMarkProgress
              n     == Len(after) IN
          /\ n <= Len(TailStages)
          /\ after = SubSeq(TailStages, 1, n)
          /\ pc \in {"aborted"} \cup
                    (IF n = Len(TailStages) THEN {END} ELSE {TailStages[n + 1]}) \cup
                    (IF JustRan("initial_data") THEN {"initial_data.gather"} ELSE {}) \cup
                    (IF JustRan("deep_research") THEN {"deep_research.gather"} ELSE {})
          /\ pc = END => (after = TailStages /\ state.status = COMPLETED)
    /\ (pc = "financials" /\ JustRan("initial_data")) => AllEnded(GroupA)
    /\ (pc = "synthesis" /\ JustRan("deep_research")) => AllEnded(GroupB)

\* a run that went through the six stages, with a task of each group failed
SixStagesWithFailedTasks ==
    /\ pc = END
    /\ Ran("mark_progress")
    /\ AfterMarkProgress = TailStages
    /\ state.status = COMPLETED
    /\ state.company_profile = Absent
    /\ state.news_timeline = EmptyList

(* ---- selection, unreachable router outcomes, status ---- *)
\* C33: when resolve_selection runs with a human selection that parses to an
\* integer i with 1 <= i <= len(match_options), found becomes the i-th
\* candidate of match_options, cik10 that candidate's cik10, match_options
\* stays as it was, and the next stage is mark_in_progress.
ValidSelectionResolves ==
    [][(pc = "resolve" /\ IsSelection(state'.human_response, state.match_options)) =>
          LET i == ToInt(Strip(state'.human_response[1])) IN
          /\ state'.found = Some(state.match_options[i])
          /\ state'.cik10 = state.match_options[i].cik10
          /\ state'.match_options = state.match_options
          /\ executed' = Append(executed, "resolve")
          /\ pc' = "mark_progress"]_vars

\* the human typed " 2" with two different candidates on the list
SecondCandidateResolved ==
    /\ JustRan("resolve")
    /\ pc = "mark_progress"
    /\ state.human_response = Some(<<" ", "2">>)
    /\ Len(state.match_options) = 2
    /\ state.match_options[1] # state.match_options[2]
    /\ state.found = Some(state.match_options[2])

\* C34: the data_collection outcome of the router after match_candidates and
\* the end outcome of the router after resolve_selection are taken in no
\* run: match_candidates runs only with found absent and leaves it absent,
\* and resolve_selection raises or sets found.
UnreachableOutcomes ==
    /\ <<"match", "data_collection">> \notin labels
    /\ <<"resolve", "end">> \notin labels
    /\ (pc = "match" \/ JustRan("match")) => state.found = None
    /\ (JustRan("resolve") /\ pc # "aborted") => state.found # None

\* both routers were consulted in one run: no title matched, the
\* suggestions gave candidates and the human chose one of them
BothRoutersConsulted ==
    /\ <<"match", "suggest">> \in labels
    /\ <<"resolve", "data_collection">> \in labels
    /\ pc = "mark_progress"

\* C35: status moves along INITIALIZING, RESEARCH_IN_PROGRESS, COMPLETED with
\* the stages executed: it is INITIALIZING until mark_in_progress has run (so
\* in a run that ended at an end edge), RESEARCH_IN_PROGRESS from then until
\* mark_complete has run, and COMPLETED exactly when mark_complete has run.
StatusFollowsStages ==
    /\ state.status = IF Ran("mark_complete") THEN COMPLETED
                      ELSE IF Ran("mark_progress") THEN RESEARCH_IN_PROGRESS
                      ELSE INITIALIZING
    /\ Ran("mark_complete") => Ran("mark_progress")
    /\ (pc = END /\ \E l \in labels : l[2] = "end") => state.status = INITIALIZING

\* the report is written and the run is still marked as in progress
InProgressBeforeComplete ==
    /\ pc = "mark_complete"
    /\ Ran("report")
    /\ state.status = RESEARCH_IN_PROGRESS

(* ---- termination ---- *)
\* the nodes build_graph adds to the workflow
NodeCount == 12

Terminated == pc \in {END, "aborted"}

\* the number of stages on the longest path of the stage graph from a
\* stage to the terminal state, the stage included
StagesAhead ==
    [ load_tickers |-> 12, match |-> 11, suggest |-> 10, validate |-> 9,
      resolve |-> 8, mark_progress |-> 7, initial_data |-> 6, financials |-> 5,
      deep_research |-> 4, synthesis |-> 3, report |-> 2, mark_complete |-> 1 ]

\* the pieces a task has left within one attempt, by where it is suspended
PiecesAhead(bpc) ==
    CASE bpc \in {"idle", "done"} -> 0
      [] bpc \in {"get_submissions", "llm_extract", "analyze_batch"} -> 1
      [] bpc \in {"get_companyfacts", "fetch_url"} -> 2
      [] bpc \in {"rate_sleep", "backoff"} -> 3
      [] bpc = "created" -> 4

\* what task b has left: the attempts its wrapper has left, four pieces
\* each, and the pieces of the attempt it is in
BranchRank(b) ==
    LET at == branch[b].bpc IN
    IF at \in {"idle", "done"} THEN 0
    ELSE 4 * (SecMaxAttempts - branch[b].attempt) + PiecesAhead(at)

\* a measure of what a run has left to do: the stages ahead count a hundred
\* each, an open gather one, and each of its tasks the pieces it has left
Rank ==
    CASE Terminated -> 0
      [] pc = "initial_data.gather" ->
             501 + BranchRank(GroupA[1]) + BranchRank(GroupA[2])
      [] pc = "deep_research.gather" ->
             301 + BranchRank(GroupB[1]) + BranchRank(GroupB[2])
                 + BranchRank(GroupB[3]) + BranchRank(GroupB[4])
      [] OTHER -> 100 * StagesAhead[pc]

\* C32: a run executes no stage twice and at most 12 stages; every step of a
\* run brings it nearer to its end, so that no run goes on for ever; and a
\* gather is never stuck: one of its tasks can go on, or it can be joined
RunTerminates ==
    /\ [](/\ Len(executed) <= NodeCount
          /\ \A i, j \in 1..Len(executed) : executed[i] = executed[j] => i = j)
    /\ [][Rank' < Rank]_vars
    /\ []((InGroupA \/ InGroupB) => ENABLED Next)

\* a run that executed all twelve stages and reached the terminal state
TwelveStagesExecuted ==
    /\ pc = END
    /\ Len(executed) = NodeCount

(***************************************************************************)
(* utils/retry.py, retry: one call through the wrapper the decorator makes *)
(* (async_wrapper and sync_wrapper have the same loop; they differ in the  *)
(* sleep they use).                                                        *)
(***************************************************************************)
MaxAttempts == 3        \* largest max_attempts a wrapper is configured with

BackoffFactors == {1, 2, 3}

\* exception classes and their base class
Parent ==
    [ Exception             |-> "BaseException",
      KeyboardInterrupt     |-> "BaseException",
      ClientError           |-> "Exception",
      ClientConnectionError |-> "ClientError",
      ValueError            |-> "Exception" ]

ExceptionClasses == DOMAIN Parent

\* isinstance(e, cls) for an exception of class c
RECURSIVE IsInstance(_, _)
IsInstance(c, cls) ==
    \/ c = cls
    \/ c \in DOMAIN Parent /\ IsInstance(Parent[c], cls)

\* the exceptions tuples of the model: the default (Exception,) and the one
\* fetch_sec_data is decorated with
RetryableSets == { {"Exception"}, {"ClientError"} }

RECURSIVE Pow(_, _)
Pow(b, e) == IF e = 0 THEN 1 ELSE b * Pow(b, e - 1)

\* a clause that catches every exception
Catches_everything(exceptions, c) == TRUE

\* `except exceptions as e` takes an exception of class c
Catches(exceptions, c) == \E cls \in exceptions : IsInstance(c, cls)

\* a test for the final attempt that is one too late
IsFinalAttempt_late(attempt, max_attempts) == attempt = max_attempts

\* attempt == max_attempts - 1
IsFinalAttempt(attempt, max_attempts) == attempt = max_attempts - 1

\* a wait that grows linearly
WaitTime_linear(backoff_factor, attempt) == backoff_factor * attempt

\* wait_time = backoff_factor ** attempt
WaitTime(backoff_factor, attempt) == Pow(backoff_factor, attempt)

\* the wrapper about to run the loop body for `attempt`, or out of the loop
NewRetryCall(max_attempts, backoff_factor, exceptions, on_retry, is_async) ==
    [ max_attempts |-> max_attempts, backoff_factor |-> backoff_factor,
      exceptions |-> exceptions, on_retry |-> on_retry, is_async |-> is_async,
      rpc |-> "attempt", attempt |-> 0,
      last_exception |-> None,
      results |-> <<>>,     \* what each invocation of func did
      log |-> <<>>,         \* invocations, callbacks and waits, in order
      outcome |-> None ]    \* what the wrapper returned or raised

\* what the n-th invocation of func did: it returned, or raised an exception
FuncReturn(n) == [cls |-> "return", at |-> n]

Exc(c, n) == [cls |-> c, at |-> n]

\* the except clause, for exception e of the invocation logged in r
retry_except(r, e) ==
    LET r1 == [r EXCEPT !.last_exception = Some(e)] IN
    IF IsFinalAttempt(r.attempt, r.max_attempts)
    THEN [r1 EXCEPT !.rpc = "raised", !.outcome = Some(e)]
    ELSE LET wait_time == WaitTime(r.backoff_factor, r.attempt)
             called == IF r.on_retry
                       THEN Append(r1.log, <<"on_retry", r.attempt + 1, e.at>>)
                       ELSE r1.log
         IN [r1 EXCEPT !.log = Append(called, <<"wait", wait_time>>),
                       !.rpc = "sleeping"]

\* one round of the loop: func is invoked and returns, or raises
retry_attempt ==
    /\ rt # Unused
    /\ rt.rpc = "attempt"
    /\ rt.attempt < rt.max_attempts
    /\ LET n == Len(rt.results) + 1
           r == [rt EXCEPT !.log = Append(@, <<"call", n>>)] IN
         \/ rt' = [r EXCEPT !.results = Append(@, FuncReturn(n)),
                            !.rpc = "returned",
                            !.outcome = Some(FuncReturn(n))]
         \/ \E c \in ExceptionClasses :
              LET e  == Exc(c, n)
                  r1 == [r EXCEPT !.results = Append(@, e)] IN
              IF Catches(r.exceptions, c)
              THEN rt' = retry_except(r1, e)
              ELSE rt' = [r1 EXCEPT !.rpc = "raised", !.outcome = Some(e)]
    /\ UNCHANGED <<pipeline, rl, fc, sf, ca, jc>>

\* the sleep is over: the loop goes on with the next value of attempt, or
\* range(max_attempts) is used up and `raise last_exception` follows the loop
retry_wake ==
    /\ rt # Unused
    /\ rt.rpc = "sleeping"
    /\ rt' = IF rt.attempt + 1 < rt.max_attempts
             THEN [rt EXCEPT !.rpc = "attempt", !.attempt = @ + 1]
             ELSE [rt EXCEPT !.rpc = "raised", !.attempt = @ + 1,
                             !.outcome = rt.last_exception]
    /\ UNCHANGED <<pipeline, rl, fc, sf, ca, jc>>

\* the workflow is not running
NoPipeline ==
    /\ state = ResearchState("")
    /\ pc = "none"
    /\ executed = <<>>
    /\ labels = {}
    /\ selected_company = None
    /\ branch = [b \in Branches |-> IdleBranch]
    /\ pre = ResearchState("")

RetryInit ==
    /\ NoPipeline
    /\ \E max_attempts \in 1..MaxAttempts, backoff_factor \in BackoffFactors,
          exceptions \in RetryableSets, on_retry \in BOOLEAN, is_async \in BOOLEAN :
          rt = NewRetryCall(max_attempts, backoff_factor, exceptions, on_retry, is_async)
    /\ rl = Unused
    /\ fc = Unused
    /\ sf = Unused
    /\ ca = Unused
    /\ jc = Unused

RetryNext ==
    \/ retry_attempt
    \/ retry_wake

RetrySpec == RetryInit /\ [][RetryNext]_vars

(* ---- properties of retry ---- *)
\* number of invocations of func so far
Invocations == Len(rt.results)

\* the log without the on_retry callbacks
RECURSIVE CallsAndWaits(_)
CallsAndWaits(log) ==
    IF log = <<>> THEN <<>>
    ELSE IF Head(log)[1] = "on_retry" THEN CallsAndWaits(Tail(log))
    ELSE <<Head(log)>> \o CallsAndWaits(Tail(log))

\* k failed invocations, each followed by its wait, then one more invocation
FailThenCall(backoff_factor, k) ==
    [ i \in 1..(2 * k + 1) |->
        IF i % 2 = 1 THEN <<"call", (i + 1) \div 2>>
        ELSE <<"wait", Pow(backoff_factor, (i \div 2) - 1)>> ]

\* the classes the wrapper was configured to retry on take exception e
Retryable(e) == \E cls \in rt.exceptions : IsInstance(e.cls, cls)

\* C11: when the wrapper returns after k failed invocations, func was
\* invoked k + 1 times, the value returned is that of the last invocation,
\* and there were exactly k waits of backoff_factor^0 .. backoff_factor^(k-1),
\* each between a failed invocation and the next one.
RetryWaitsThenReturns ==
    (rt # Unused /\ rt.rpc = "returned") =>
        LET k == Invocations - 1 IN
        /\ k < rt.max_attempts
        /\ \A i \in 1..k : rt.results[i].cls # "return" /\ Retryable(rt.results[i])
        /\ rt.outcome = Some(FuncReturn(k + 1))
        /\ CallsAndWaits(rt.log) = FailThenCall(rt.backoff_factor, k)

\* a call that returned at its third invocation, with a factor other than 1
ReturnedAfterTwoFailures ==
    /\ rt # Unused
    /\ rt.rpc = "returned"
    /\ Invocations = 3
    /\ rt.backoff_factor = 3
    /\ rt.on_retry

\* C12: when the wrapper raises a retryable exception, func was invoked
\* max_attempts times, there were max_attempts - 1 waits and none after the
\* last invocation, and the exception raised is the one of the last
\* invocation.
RetryExhaustedReraisesLast ==
    (rt # Unused /\ rt.rpc = "raised" /\ Retryable(rt.results[Invocations])) =>
        /\ Invocations = rt.max_attempts
        /\ rt.outcome = Some(rt.results[rt.max_attempts])
        /\ CallsAndWaits(rt.log) = FailThenCall(rt.backoff_factor, rt.max_attempts - 1)

\* every one of three attempts failed with a retryable exception
AllThreeAttemptsFailed ==
    /\ rt # Unused
    /\ rt.rpc = "raised"
    /\ rt.max_attempts = 3
    /\ Invocations = 3
    /\ \A i \in 1..3 : rt.results[i].cls # "return" /\ Retryable(rt.results[i])

\* number of entries of the log of kind ev
RECURSIVE Count(_, _)
Count(log, ev) ==
    IF log = <<>> THEN 0
    ELSE (IF Head(log)[1] = ev THEN 1 ELSE 0) + Count(Tail(log), ev)

\* C13: an exception outside the retryable set leaves the wrapper at the
\* invocation that raised it, whatever its index: that invocation is the
\* last entry of the log (no callback, no wait, no further invocation) and
\* the wrapper raises that exception.
NonRetryablePropagates ==
    rt # Unused =>
        \A i \in 1..Invocations :
            (rt.results[i].cls # "return" /\ ~Retryable(rt.results[i])) =>
                /\ i = Invocations
                /\ rt.rpc = "raised"
                /\ rt.outcome = Some(rt.results[i])
                /\ rt.log[Len(rt.log)] = <<"call", i>>
                /\ Count(rt.log, "wait") = i - 1
                /\ rt.on_retry => Count(rt.log, "on_retry") = i - 1

\* a ValueError at the second of three attempts of a wrapper that retries
\* on ClientError and has a callback
ValueErrorAtSecondAttempt ==
    /\ rt # Unused
    /\ rt.exceptions = {"ClientError"}
    /\ rt.on_retry
    /\ rt.max_attempts = 3
    /\ Invocations = 2
    /\ rt.results[2].cls = "ValueError"
    /\ rt.rpc = "raised"

(***************************************************************************)
(* The structured LLM calls under @retry: validate_company_match           *)
(* (nodes/company_validation.py, max_attempts=2) and                       *)
(* analyze_sentiment_batch (nodes/sentiment_analysis.py, max_attempts=3).  *)
(* One call through the wrapper; the body builds the client and the chain  *)
(* and awaits chain.ainvoke inside its own try block.                      *)
(***************************************************************************)
StructuredMaxAttempts ==
    [ validate_company_match |-> 2, analyze_sentiment_batch |-> 3 ]

StructuredFuncs == DOMAIN StructuredMaxAttempts

\* what chain.ainvoke does: the parser hands back the parsed output, the
\* parser rejects the text (OutputParserException, "Invalid json output"),
\* or the request fails with another exception
ChainResults == {"parsed", "unparseable", "failed"}

\* the state validate_company_match is called with: no candidate, one or two
ValidationInputs ==
    { [ResearchState("acme") EXCEPT !.match_options = options] :
          options \in { <<>>,
                        <<MatchOfTicker(TickerData[1])>>,
                        <<MatchOfTicker(TickerData[2])>>,
                        <<MatchOfTicker(TickerData[2]), MatchOfTicker(TickerData[1])>> } }

\* the snippets of a batch: none or some
SnippetBatches == { EmptyList, "snippets" }

\* what the parser hands back for a batch: a results list, or a dict
\* without the "results" key (result.get("results", []))
ParsedBatches == { "results", EmptyList }

\* the arguments of a call of func
StructuredInputs(func) ==
    IF func = "validate_company_match" THEN ValidationInputs ELSE SnippetBatches

\* "parse" in str(e).lower() or "json" in str(e).lower()
IsParsingError(result) == result = "unparseable"

\* the wrapper of func about to make its first attempt on input
NewStructuredCall(func, input) ==
    [ func |-> func, input |-> input,
      max_attempts |-> StructuredMaxAttempts[func], backoff_factor |-> 2,
      exceptions |-> {"Exception"}, on_retry |-> FALSE, is_async |-> TRUE,
      rpc |-> "attempt", attempt |-> 0,
      last_exception |-> None,
      results |-> <<>>,
      log |-> <<>>,
      outcome |-> None,
      invoked |-> <<>>,     \* what each chain.ainvoke did
      value |-> None ]      \* the value func returned to the wrapper

\* func returned v, having awaited the chain as in inv
StructuredReturn(r, v, inv) ==
    LET n == Len(r.results) + 1 IN
    [r EXCEPT !.results = Append(@, FuncReturn(n)),
              !.invoked = @ \o inv,
              !.rpc = "returned",
              !.outcome = Some(FuncReturn(n)),
              !.value = Some(v)]

\* an exception of class c left func
StructuredRaise(r, c, inv) ==
    LET n  == Len(r.results) + 1
        e  == Exc(c, n)
        r1 == [r EXCEPT !.results = Append(@, e), !.invoked = @ \o inv] IN
    IF Catches(r.exceptions, c)
    THEN retry_except(r1, e)
    ELSE [r1 EXCEPT !.rpc = "raised", !.outcome = Some(e)]

ChainRaised == CHOOSE o \in ValidationOutcomes : o.error

\* one attempt of the wrapper of validate_company_match: the records the
\* wrapper can be in after it
validate_company_match_attempt(r) ==
    IF r.input.match_options = <<>>
    THEN { StructuredReturn(r, validate_company_match_body(r.input, ChainRaised), <<>>) }
    ELSE { StructuredRaise(r, "ValueError", <<>>) }     \* ChatGoogleGenerativeAI(...) raised
         \cup { StructuredReturn(r, validate_company_match_body(r.input, o), <<"parsed">>) :
                    o \in ValidationOutcomes \ {ChainRaised} }
         \cup { StructuredReturn(r, validate_company_match_body(r.input, ChainRaised),
                                 <<result>>) :
                    result \in ChainResults \ {"parsed"} }

\* one attempt of the wrapper of analyze_sentiment_batch
analyze_sentiment_batch_attempt(r) ==
    IF r.input = EmptyList
    THEN { StructuredReturn(r, EmptyList, <<>>) }
    ELSE { StructuredRaise(r, "ValueError", <<>>) }
         \cup { StructuredReturn(r, results, <<"parsed">>) : results \in ParsedBatches }
         \cup { IF IsParsingError(result)
                THEN StructuredReturn(r, EmptyList, <<result>>)
                ELSE StructuredRaise(r, "Exception", <<result>>) :
                    result \in ChainResults \ {"parsed"} }

\* one round of the wrapper's loop with the body of func
structured_attempt ==
    /\ rt # Unused
    /\ rt.rpc = "attempt"
    /\ rt.attempt < rt.max_attempts
    /\ LET r == [rt EXCEPT !.log = Append(@, <<"call", Len(rt.results) + 1>>)] IN
       rt' \in IF rt.func = "validate_company_match"
               THEN validate_company_match_attempt(r)
               ELSE analyze_sentiment_batch_attempt(r)
    /\ UNCHANGED <<pipeline, rl, fc, sf, ca, jc>>

StructuredInit ==
    /\ NoPipeline
    /\ \E func \in StructuredFuncs :
       \E input \in StructuredInputs(func) :
          rt = NewStructuredCall(func, input)
    /\ rl = Unused
    /\ fc = Unused
    /\ sf = Unused
    /\ ca = Unused
    /\ jc = Unused

StructuredNext ==
    \/ structured_attempt
    \/ retry_wake

StructuredSpec == StructuredInit /\ [][StructuredNext]_vars

(* ---- properties of the structured calls ---- *)
\* the value func falls back to: validation not passed, no sentiment results
SafeDefault(r) ==
    IF r.func = "validate_company_match"
    THEN r.value # None /\ ~r.value[1].llm_validation_passed /\ r.value[1].found = None
    ELSE r.value = Some(EmptyList)

\* C31: when the chain of a structured call yields unparseable output the
\* call is retried exactly once (the chain is awaited a second time, and no
\* third time), and if the output is unparseable again the call returns the
\* safe default without raising
UnparseableRetriedOnce ==
    (rt.rpc \in {"returned", "raised"} /\ rt.invoked # <<>>
        /\ rt.invoked[1] = "unparseable") =>
        /\ Len(rt.invoked) = 2
        /\ rt.invoked[2] = "unparseable" => (rt.rpc = "returned" /\ SafeDefault(rt))

(***************************************************************************)
(* utils/retry.py, rate_limit: one limiter (one min_interval, one          *)
(* last_called cell) and the calls made through its wrapper.  Time is      *)
(* counted in ticks of 1/TicksPerSecond second.                            *)
(***************************************************************************)
MaxCalls == 3           \* calls issued through the limiter
Horizon == 8            \* ticks the clock may advance after the first call

TicksPerSecond == 4

CallRates == {1, 2, 4}  \* calls_per_second

\* time.time() when the scenario starts: far from the 0.0 last_called starts at
Epoch == 2 * TicksPerSecond

\* min_interval = 1.0 / calls_per_second, in ticks
MinInterval(calls_per_second) == TicksPerSecond \div calls_per_second

\* a limiter that never waits
SleepFor_nothing(min_interval, elapsed) == 0

\* the argument of the sleep: min_interval - elapsed
SleepFor(min_interval, elapsed) == min_interval - elapsed

NewLimiter(calls_per_second, concurrent) ==
    [ min_interval |-> MinInterval(calls_per_second),
      last_called |-> 0,
      now |-> Epoch,
      concurrent |-> concurrent,    \* calls are issued while others are pending
      calls |-> <<>> ]              \* per call: position, wake-up time, start of the body

\* last_called[0] = time.time(), then the wrapped body starts
StartBody(l, i) ==
    [l EXCEPT !.last_called = l.now,
              !.calls[i] = [cpc |-> "running", wake |-> l.now, started |-> l.now]]

\* a call enters the wrapper: it reads the clock and last_called, and either
\* goes to sleep or starts the body at once
rate_limit_call ==
    /\ rl # Unused
    /\ Len(rl.calls) < MaxCalls
    /\ rl.concurrent \/ \A i \in 1..Len(rl.calls) : rl.calls[i].cpc = "done"
    /\ LET i == Len(rl.calls) + 1
           elapsed == rl.now - rl.last_called
           l == [rl EXCEPT !.calls = Append(@, [cpc |-> "new", wake |-> 0, started |-> 0])]
       IN IF elapsed < rl.min_interval
          THEN rl' = [l EXCEPT !.calls[i] =
                        [cpc |-> "sleeping",
                         wake |-> rl.now + SleepFor(rl.min_interval, elapsed),
                         started |-> 0]]
          ELSE rl' = StartBody(l, i)
    /\ UNCHANGED <<pipeline, rt, fc, sf, ca, jc>>

\* the sleep of a call is over (a sleep lasts at least as long as asked for)
rate_limit_wake ==
    /\ rl # Unused
    /\ \E i \in 1..Len(rl.calls) :
          /\ rl.calls[i].cpc = "sleeping"
          /\ rl.now >= rl.calls[i].wake
          /\ rl' = StartBody(rl, i)
    /\ UNCHANGED <<pipeline, rt, fc, sf, ca, jc>>

\* the wrapped body of a call returns
rate_limit_return ==
    /\ rl # Unused
    /\ \E i \in 1..Len(rl.calls) :
          /\ rl.calls[i].cpc = "running"
          /\ rl' = [rl EXCEPT !.calls[i].cpc = "done"]
    /\ UNCHANGED <<pipeline, rt, fc, sf, ca, jc>>

\* the clock advances
rate_limit_tick ==
    /\ rl # Unused
    /\ rl.now < Epoch + Horizon
    /\ rl' = [rl EXCEPT !.now = @ + 1]
    /\ UNCHANGED <<pipeline, rt, fc, sf, ca, jc>>

RateInit ==
    /\ NoPipeline
    /\ \E calls_per_second \in CallRates, concurrent \in BOOLEAN :
          rl = NewLimiter(calls_per_second, concurrent)
    /\ rt = Unused
    /\ fc = Unused
    /\ sf = Unused
    /\ ca = Unused
    /\ jc = Unused

RateNext ==
    \/ rate_limit_call
    \/ rate_limit_wake
    \/ rate_limit_return
    \/ rate_limit_tick

RateSpec == RateInit /\ [][RateNext]_vars

(* ---- properties of rate_limit ---- *)
\* the calls whose wrapped body has started
Started == { i \in 1..Len(rl.calls) : rl.calls[i].cpc \in {"running", "done"} }

\* C14: when the calls are issued one after another, the bodies of
\* consecutive calls start at least min_interval apart, so the N-th body
\* starts at least (N - 1) * min_interval after the first.
SequentialCallsSpaced ==
    (rl # Unused /\ ~rl.concurrent) =>
        /\ \A i \in Started : i > 1 =>
              rl.calls[i].started - rl.calls[i - 1].started >= rl.min_interval
        /\ \A i \in Started :
              rl.calls[i].started - rl.calls[1].started >= (i - 1) * rl.min_interval

\* three calls one after another at one call per second, none of them slow
ThreeSequentialCalls ==
    /\ rl # Unused
    /\ ~rl.concurrent
    /\ rl.min_interval = TicksPerSecond
    /\ Len(rl.calls) = 3
    /\ \A i \in 1..3 : rl.calls[i].cpc = "done"
    /\ rl.calls[3].started - rl.calls[1].started = 2 * rl.min_interval

\* C15: when calls are issued concurrently through one limiter, no two of
\* them start their wrapped body less than min_interval apart.
ConcurrentCallsSpaced ==
    (rl # Unused /\ rl.concurrent) =>
        \A i, j \in Started : i < j =>
            \/ rl.calls[j].started - rl.calls[i].started >= rl.min_interval
            \/ rl.calls[i].started - rl.calls[j].started >= rl.min_interval

(***************************************************************************)
(* utils/fallback.py, FallbackChain: a chain with its strategies added,    *)
(* and one execute() on it.                                                *)
(***************************************************************************)
MaxStrategies == 3      \* longest list of strategies of a chain

\* what a strategy does when invoked: it returns a non-empty value, an
\* empty list or None, or it raises an Exception
StrategyBehaviours == {"value", "empty", "none", "raise"}

\* what strategy i hands back, or raises
Result(kind, i) == [kind |-> kind, by |-> i]

\* `if result:` taken as `if result is not None:`
IsMeaningful_not_none(result) == result.kind \in {"value", "empty"}

\* `if result:` the result is neither None nor empty
IsMeaningful(result) == result.kind = "value"

\* the first error is kept
Record_first(last_error, e) == IF last_error = None THEN Some(e) ELSE last_error

\* an except clause that logs the error and keeps nothing
Record_dropped(last_error, e) == last_error

\* last_error = e
Record(last_error, e) == Some(e)

\* an exhausted chain that always raises
RaisesWhenExhausted_always(last_error) == TRUE

\* `if last_error:` after the loop
RaisesWhenExhausted(last_error) == last_error # None

NewChain(strategies) ==
    [ strategies |-> strategies,
      fpc |-> "execute",
      i |-> 1,                  \* position of the loop in self.strategies
      last_error |-> None,
      invoked |-> <<>>,         \* the strategies invoked, in order
      outcome |-> None ]        \* what execute returned or raised

\* execute on a chain without strategies
fallback_execute_empty ==
    /\ fc # Unused
    /\ fc.fpc = "execute"
    /\ fc.strategies = <<>>
    /\ fc' = [fc EXCEPT !.fpc = "raised", !.outcome = Some(Result("ValueError", 0))]
    /\ UNCHANGED <<pipeline, rt, rl, sf, ca, jc>>

\* one round of the loop over self.strategies
fallback_execute_try ==
    /\ fc # Unused
    /\ fc.fpc = "execute"
    /\ fc.i <= Len(fc.strategies)
    /\ LET c == [fc EXCEPT !.invoked = Append(@, fc.i), !.i = @ + 1]
           behaviour == fc.strategies[fc.i]
           result == Result(behaviour, fc.i) IN
       IF behaviour = "raise"
       THEN fc' = [c EXCEPT !.last_error = Record(fc.last_error, Result("error", fc.i))]
       ELSE IF IsMeaningful(result)
       THEN fc' = [c EXCEPT !.fpc = "returned", !.outcome = Some(result)]
       ELSE fc' = c
    /\ UNCHANGED <<pipeline, rt, rl, sf, ca, jc>>

\* the loop is over: every strategy failed
fallback_execute_exhausted ==
    /\ fc # Unused
    /\ fc.fpc = "execute"
    /\ fc.strategies # <<>>
    /\ fc.i > Len(fc.strategies)
    /\ IF RaisesWhenExhausted(fc.last_error)
       THEN fc' = [fc EXCEPT !.fpc = "raised", !.outcome = fc.last_error]
       ELSE fc' = [fc EXCEPT !.fpc = "returned", !.outcome = Some(Result("none", 0))]
    /\ UNCHANGED <<pipeline, rt, rl, sf, ca, jc>>

ChainInit ==
    /\ NoPipeline
    /\ \E strategies \in SeqsUpTo(StrategyBehaviours, MaxStrategies) :
          fc = NewChain(strategies)
    /\ rt = Unused
    /\ rl = Unused
    /\ sf = Unused
    /\ ca = Unused
    /\ jc = Unused

ChainNext ==
    \/ fallback_execute_empty
    \/ fallback_execute_try
    \/ fallback_execute_exhausted

ChainSpec == ChainInit /\ [][ChainNext]_vars

(* ---- properties of FallbackChain ---- *)
ChainDone == fc.fpc \in {"returned", "raised"}

\* positions of the strategies that return a non-empty value
Succeeding == { k \in 1..Len(fc.strategies) : fc.strategies[k] = "value" }

\* C16: the strategies are invoked in the order they were added, each at
\* most once; a strategy is invoked only after all before it returned empty
\* or raised, and execute returns the value of the first strategy that
\* returns a non-empty one, invoking none after it.
FirstNonEmptyWins ==
    fc # Unused =>
        /\ fc.invoked = [k \in 1..Len(fc.invoked) |-> k]
        /\ \A k \in 1..(Len(fc.invoked) - 1) : k \notin Succeeding
        /\ (ChainDone /\ Succeeding # {}) =>
              /\ fc.fpc = "returned"
              /\ fc.outcome = Some(Result("value", Min(Succeeding)))
              /\ Len(fc.invoked) = Min(Succeeding)

\* a chain of three whose second strategy is the first to return a value,
\* after an empty result of the first
SecondStrategyWins ==
    /\ fc # Unused
    /\ Len(fc.strategies) = 3
    /\ fc.strategies[1] = "empty"
    /\ fc.strategies[2] = "value"
    /\ fc.fpc = "returned"
    /\ fc.invoked = <<1, 2>>

\* C17: when every strategy of a non-empty chain raises, execute invokes
\* each of them once, in order, and raises the exception of the last one.
AllRaiseReraisesLast ==
    (fc # Unused /\ ChainDone /\ fc.strategies # <<>>
        /\ \A k \in 1..Len(fc.strategies) : fc.strategies[k] = "raise") =>
        /\ fc.invoked = [k \in 1..Len(fc.strategies) |-> k]
        /\ fc.fpc = "raised"
        /\ fc.outcome = Some(Result("error", Len(fc.strategies)))

\* a chain of three raising strategies, executed
ThreeStrategiesRaised ==
    /\ fc # Unused
    /\ fc.strategies = <<"raise", "raise", "raise">>
    /\ fc.fpc = "raised"

\* C18: when every strategy of a non-empty chain returns an empty result
\* without raising, execute returns None and does not raise.
AllEmptyReturnsNone ==
    (fc # Unused /\ ChainDone /\ fc.strategies # <<>>
        /\ \A k \in 1..Len(fc.strategies) : fc.strategies[k] \in {"empty", "none"}) =>
        /\ fc.fpc = "returned"
        /\ fc.outcome = Some(Result("none", 0))
        /\ fc.invoked = [k \in 1..Len(fc.strategies) |-> k]

\* a chain whose strategies returned an empty list and None, executed
BothKindsOfEmpty ==
    /\ fc # Unused
    /\ fc.strategies = <<"empty", "none">>
    /\ ChainDone

\* positions of the strategies that raise
Raising == { k \in 1..Len(fc.strategies) : fc.strategies[k] = "raise" }

\* C36: execute on a non-empty chain raises exactly when no strategy returned
\* a non-empty value and at least one raised, and then it raises the
\* exception of the last strategy that raised, whatever the strategies after
\* it returned; it returns None exactly when none raised and all returned
\* empty results.
RaisesIffErrorAndNoValue ==
    (fc # Unused /\ ChainDone /\ fc.strategies # <<>>) =>
        /\ fc.fpc = "raised" <=> (Succeeding = {} /\ Raising # {})
        /\ fc.fpc = "raised" =>
              fc.outcome = Some(Result("error", Max(Raising)))
        /\ (fc.fpc = "returned" /\ fc.outcome = Some(Result("none", 0)))
              <=> (Succeeding = {} /\ Raising = {})

\* the first of three strategies raised and the two after it returned
\* empty results: execute raised the error of the first
ErrorOutlivesEmptyResults ==
    /\ fc # Unused
    /\ fc.strategies = <<"raise", "empty", "none">>
    /\ fc.invoked = <<1, 2, 3>>
    /\ fc.fpc = "raised"
    /\ fc.outcome = Some(Result("error", 1))

(***************************************************************************)
(* utils/fallback.py, ServiceFallback: the registered services, their      *)
(* health counters, and the calls made through the object.                 *)
(***************************************************************************)
MaxServices == 2        \* services registered with one ServiceFallback
MaxServiceCalls == 5    \* calls made through it

\* the names services are registered under, in the order of registration
ServiceNames == <<"tavily", "ddgs", "cache">>

Priorities == {0, 1}

FailureThreshold == 3

\* list.sort(key=priority) is stable: an element goes behind the elements
\* already placed whose priority is not greater
RECURSIVE InsertByPriority(_, _)
InsertByPriority(sorted, s) ==
    IF sorted = <<>> THEN <<s>>
    ELSE IF Head(sorted).priority <= s.priority
    THEN <<Head(sorted)>> \o InsertByPriority(Tail(sorted), s)
    ELSE <<s>> \o sorted

RECURSIVE SortByPriority(_, _)
SortByPriority(services, sorted) ==
    IF services = <<>> THEN sorted
    ELSE SortByPriority(Tail(services), InsertByPriority(sorted, Head(services)))

\* a skip test that already fires at the threshold
TooManyFailures_at_threshold(failures) == failures >= FailureThreshold

\* a call that never passes over a service
TooManyFailures_ignored(failures) == FALSE

\* self.failure_counts[name] > 3
TooManyFailures(failures) == failures > FailureThreshold

\* a success that wipes the failure counter
DecayFailures_reset(failures) == 0

\* max(0, self.failure_counts[name] - 1)
DecayFailures(failures) == IF failures - 1 > 0 THEN failures - 1 ELSE 0

NewServiceFallback ==
    [ services |-> <<>>,
      failure_counts |-> <<>>,      \* name -> count, empty at construction
      success_counts |-> <<>>,
      calls |-> 0,
      last |-> None ]               \* the most recent call(), None after a register

\* the loop of call() from position i on: the set of ways it can end, by
\* what each service does when it is invoked.  visited keeps, per service
\* the loop came to, whether it was invoked and what it did.
RECURSIVE CallLoop(_, _, _)
CallLoop(o, i, visited) ==
    IF i > Len(o.services)
    THEN { [o |-> o, visited |-> visited, result |-> Result("none", 0)] }
    ELSE LET name == o.services[i].name
             seen(did) == Append(visited, [name |-> name, did |-> did]) IN
         IF TooManyFailures(o.failure_counts[name])
         THEN CallLoop(o, i + 1, seen("skipped"))
         ELSE { [o |-> [o EXCEPT !.success_counts[name] = @ + 1,
                                 !.failure_counts[name] = DecayFailures(@)],
                 visited |-> seen("value"), result |-> Result("value", i)] }
              \cup CallLoop([o EXCEPT !.failure_counts[name] = @ + 1], i + 1, seen("raise"))
              \cup CallLoop(o, i + 1, seen("empty"))

service_register ==
    /\ sf # Unused
    /\ Len(sf.services) < MaxServices
    /\ \E priority \in Priorities :
          LET name == ServiceNames[Len(sf.services) + 1] IN
          sf' = [sf EXCEPT
                    !.services = SortByPriority(
                                    Append(@, [name |-> name, priority |-> priority]), <<>>),
                    !.failure_counts = (name :> 0) @@ @,
                    !.success_counts = (name :> 0) @@ @,
                    !.last = None]
    /\ UNCHANGED <<pipeline, rt, rl, fc, ca, jc>>

service_call ==
    /\ sf # Unused
    /\ sf.calls < MaxServiceCalls
    /\ \E r \in CallLoop(sf, 1, <<>>) :
          sf' = [r.o EXCEPT
                    !.calls = @ + 1,
                    !.last = Some([before |-> [failure_counts |-> sf.failure_counts,
                                               success_counts |-> sf.success_counts],
                                   visited |-> r.visited,
                                   result |-> r.result])]
    /\ UNCHANGED <<pipeline, rt, rl, fc, ca, jc>>

ServiceInit ==
    /\ NoPipeline
    /\ sf = NewServiceFallback
    /\ rt = Unused
    /\ rl = Unused
    /\ fc = Unused
    /\ ca = Unused
    /\ jc = Unused

ServiceNext ==
    \/ service_register
    \/ service_call

ServiceSpec == ServiceInit /\ [][ServiceNext]_vars

(* ---- properties of ServiceFallback ---- *)
\* a call() has just returned
JustCalled == sf # Unused /\ sf.last # None

LastCall == sf.last[1]

\* C19: call() goes through the services in ascending priority order; it
\* invokes a service exactly when its failure counter is at most 3 at that
\* moment, and passes over it without invoking it when the counter is
\* greater.
ServicesTriedByPriority ==
    JustCalled =>
        /\ \A i, j \in 1..Len(sf.services) :
              i < j => sf.services[i].priority <= sf.services[j].priority
        /\ Len(LastCall.visited) <= Len(sf.services)
        /\ \A k \in 1..Len(LastCall.visited) :
              /\ LastCall.visited[k].name = sf.services[k].name
              /\ LastCall.visited[k].did # "skipped" <=>
                    LastCall.before.failure_counts[sf.services[k].name] <= FailureThreshold

\* the first service was passed over with four failures and the second,
\* of greater priority number, was invoked
UnhealthyServiceSkipped ==
    /\ JustCalled
    /\ Len(LastCall.visited) = 2
    /\ LastCall.visited[1].did = "skipped"
    /\ LastCall.before.failure_counts[sf.services[1].name] = FailureThreshold + 1
    /\ LastCall.visited[2].did # "skipped"
    /\ sf.services[1].priority < sf.services[2].priority

\* C20: in a call, a service that returns a non-empty result gets its
\* success counter raised by 1 and its failure counter lowered by 1 but not
\* below 0, and the call returns that result with no later service
\* invoked; a service that raises gets its failure counter raised by 1 and
\* keeps its success counter; a service that is not invoked keeps both.
CountersFollowOutcome ==
    JustCalled =>
        \A k \in 1..Len(sf.services) :
            LET name == sf.services[k].name
                f0 == LastCall.before.failure_counts[name]
                s0 == LastCall.before.success_counts[name]
                f1 == sf.failure_counts[name]
                s1 == sf.success_counts[name]
                invoked == k <= Len(LastCall.visited) /\ LastCall.visited[k].did # "skipped"
            IN  IF ~invoked THEN f1 = f0 /\ s1 = s0
                ELSE CASE LastCall.visited[k].did = "value" ->
                            /\ s1 = s0 + 1
                            /\ f1 = (IF f0 = 0 THEN 0 ELSE f0 - 1)
                            /\ LastCall.result = Result("value", k)
                            /\ Len(LastCall.visited) = k
                       [] LastCall.visited[k].did = "raise" ->
                            f1 = f0 + 1 /\ s1 = s0
                       [] LastCall.visited[k].did = "empty" ->
                            f1 = f0 /\ s1 = s0

\* the first service raised, and the second, which had two failures on its
\* record, returned a result
RecoveredAfterFailure ==
    /\ JustCalled
    /\ Len(sf.services) = 2
    /\ LastCall.visited = << [name |-> sf.services[1].name, did |-> "raise"],
                             [name |-> sf.services[2].name, did |-> "value"] >>
    /\ LastCall.before.failure_counts[sf.services[2].name] = 2

\* C37: every failure counter stays within 0..4, and a service whose counter
\* has reached 4 is invoked in no later call and keeps both its counters
\* for good: nothing brings it back.
NoRecoveryAtFour ==
    /\ [](\A name \in DOMAIN sf.failure_counts :
             sf.failure_counts[name] \in 0..(FailureThreshold + 1))
    /\ [][\A name \in DOMAIN sf.failure_counts :
             sf.failure_counts[name] = FailureThreshold + 1 =>
                /\ sf'.failure_counts[name] = sf.failure_counts[name]
                /\ sf'.success_counts[name] = sf.success_counts[name]
                /\ sf'.last # None =>
                      \A k \in 1..Len(sf'.last[1].visited) :
                          sf'.last[1].visited[k].name = name =>
                              sf'.last[1].visited[k].did = "skipped"]_vars

\* both services have four failures on their record, and a call passed over
\* both of them and returned nothing
EveryServiceLost ==
    /\ JustCalled
    /\ Len(sf.services) = 2
    /\ \A k \in 1..2 :
          /\ LastCall.before.failure_counts[sf.services[k].name] = FailureThreshold + 1
          /\ sf.failure_counts[sf.services[k].name] = FailureThreshold + 1
    /\ LastCall.visited = [k \in 1..2 |-> [name |-> sf.services[k].name, did |-> "skipped"]]
    /\ LastCall.result = Result("none", 0)

(***************************************************************************)
(* utils/cache.py, FileCache: one cache object, the two files it keeps per *)
(* key in its directory, and the calls made on it.  A call is a sequence   *)
(* of file-system operations; time is counted in seconds.                  *)
(***************************************************************************)
MaxCacheOps == 3        \* calls made on the cache
CacheHorizon == 2       \* seconds the clock may advance
MaxInFlight == 2        \* calls that run at the same time, when they may overlap

\* keys, as strings of characters
CacheKeys == { <<"a", ".", "b">>, <<"a", "_", "b">>, <<"k">> }

Letters == {"a", "b", "k"}

\* a value pickle cannot serialize (a lambda, an open file)
Unpicklable == "<lambda>"

\* values handed to set() or returned by a compute_func; Absent is None
CacheValues == {"v1", "v2", Absent, Unpicklable}

\* the ttl of the constructor
CacheTtls == {1}

\* the value and the ttl argument of a set(); the ttl argument of get_or_compute()
SetArguments ==
    { <<"v1", None>>, <<"v1", Some(0)>>, <<"v2", Some(2)>>, <<Absent, None>>, <<Unpicklable, None>> }
ComputeTtls == {None}

\* c.isalnum()
IsAlnum(c) == c \in Letters \cup Digits

\* safe_key of _get_path: every character that is not alphanumeric, "_" or
\* "-" becomes "_".  The cache file and the metadata file of a key are the
\* two files named after its safe_key.
get_path(key) ==
    [i \in 1..Len(key) |-> IF IsAlnum(key[i]) \/ key[i] \in {"_", "-"} THEN key[i] ELSE "_"]

SafeKeys == { get_path(key) : key \in CacheKeys }

\* a file just opened for writing: it exists and is empty
EmptyFile == [empty |-> TRUE, value |-> Absent, timestamp |-> 0, ttl |-> 0, key |-> <<>>, by |-> 0]

\* the cache file after pickle.dump(value, f), written by call number by
ValueFile(value, by) ==
    [empty |-> FALSE, value |-> value, timestamp |-> 0, ttl |-> 0, key |-> <<>>, by |-> by]

\* the metadata file after json.dump(metadata, f)
MetaFile(timestamp, ttl, key, by) ==
    [empty |-> FALSE, value |-> Absent, timestamp |-> timestamp, ttl |-> ttl, key |-> key, by |-> by]

\* ttl or self.ttl
EffectiveTtl(ttl, default) == IF ttl = None \/ ttl[1] = 0 THEN default ELSE ttl[1]

\* age > metadata["ttl"]
Expired(age, ttl) == age > ttl

NewFileCache(ttl, concurrent) ==
    [ ttl |-> ttl,
      now |-> 0,                                \* time.time()
      blob |-> [p \in SafeKeys |-> None],       \* the .cache files
      meta |-> [p \in SafeKeys |-> None],       \* the .meta files
      concurrent |-> concurrent,                \* calls are made while others run
      started |-> 0,                            \* calls made so far
      running |-> {},                           \* the calls that have not returned
      stored |-> [k \in CacheKeys |-> None],    \* per key, the last set() that returned
                                                \* with no delete() of the key after it
      last |-> None ]                           \* the call that has just returned

\* the key of the calls that overlap
SharedKey == <<"k">>

\* the mark a set() leaves in the files it writes, to tell the sets of
\* overlapping calls apart
Mark(c, o) == IF c.concurrent THEN o.id ELSE 0

\* a call at its first statement
NewCacheCall(id, op, key, value, ttl, prior) ==
    [ id |-> id, op |-> op, key |-> key, value |-> value, ttl |-> ttl,
      at |-> CASE op = "set" -> "open_value"
               [] op = "delete" -> "unlink_value"
               [] OTHER -> "exists",
      metadata |-> None,        \* the metadata get() has read
      now |-> 0,                \* the reading of time.time() the call has taken
      from |-> 0,               \* the call that wrote the value get() has loaded
      hit |-> FALSE,            \* get() has returned a value that is not None
      expired |-> FALSE,        \* get() has found the entry too old
      invoked |-> FALSE,        \* compute_func has been called
      prior |-> prior ]         \* the last set() of the key that had returned when
                                \* the call was made

\* the call o goes on as upd, its fields and position changed
Move(c, o, upd) == [c EXCEPT !.running = (@ \ {o}) \cup {upd}, !.last = None]

\* the call o returns result, having become upd
ReturnFrom(c, o, upd, result) ==
    [c EXCEPT !.running = @ \ {o},
              !.last = Some([call |-> upd, result |-> result])]

\* the get() of call o returns result: get returns it, get_or_compute
\* returns it unless it is None
GetReturns(c, o, upd, result) ==
    IF o.op = "get" \/ result # Absent
    THEN ReturnFrom(c, o, [upd EXCEPT !.hit = result # Absent], result)
    ELSE Move(c, o, [upd EXCEPT !.at = "compute"])

\* the set() of call o returns: set returns None, get_or_compute the
\* computed value
SetReturns(c, o, upd) ==
    ReturnFrom(c, o, upd, IF o.op = "set" THEN Absent ELSE o.value)

\* the calls at position at
CallsAt(at) == IF ca = Unused THEN {} ELSE { o \in ca.running : o.at = at }

\* the cache with one more call, now running
Call(op, key, value, ttl) ==
    [ca EXCEPT !.started = @ + 1, !.last = None,
               !.running = @ \cup {NewCacheCall(ca.started + 1, op, key, value, ttl,
                                                 ca.stored[key])}]

\* a caller makes a call on the cache: any call once the one before has
\* returned, or, where calls overlap, a get or a set of the shared key
\* while no other set runs
cache_call ==
    /\ ca # Unused
    /\ ca.started < MaxCacheOps
    /\ IF ca.concurrent
       THEN /\ Cardinality(ca.running) < MaxInFlight
            /\ \/ ca' = Call("get", SharedKey, Absent, None)
               \/ /\ \A o \in ca.running : o.op # "set"
                  /\ \E a \in SetArguments : ca' = Call("set", SharedKey, a[1], a[2])
       ELSE /\ ca.running = {}
            /\ \E key \in CacheKeys :
                  \/ \E a \in SetArguments : ca' = Call("set", key, a[1], a[2])
                  \/ \E op \in {"get", "delete"} : ca' = Call(op, key, Absent, None)
                  \/ \E ttl \in ComputeTtls : ca' = Call("get_or_compute", key, Absent, ttl)
    /\ UNCHANGED <<pipeline, rt, rl, fc, sf, jc>>

\* get: if not cache_path.exists() or not meta_path.exists(): return None
cache_get_exists ==
    /\ \E o \in CallsAt("exists") :
          LET p == get_path(o.key) IN
          ca' = IF ca.blob[p] = None \/ ca.meta[p] = None
                THEN GetReturns(ca, o, o, Absent)
                ELSE Move(ca, o, [o EXCEPT !.at = "read_meta"])
    /\ UNCHANGED <<pipeline, rt, rl, fc, sf, jc>>

\* get: the metadata file is opened and parsed and the age of the entry is
\* taken; a file that is gone or empty raises, and get returns None
cache_get_read_meta ==
    /\ \E o \in CallsAt("read_meta") :
          LET p == get_path(o.key)
              f == ca.meta[p] IN
          ca' = IF f = None \/ f[1].empty
                THEN GetReturns(ca, o, o, Absent)
                ELSE LET age == ca.now - f[1].timestamp IN
                     Move(ca, o, [o EXCEPT !.metadata = f, !.now = ca.now,
                                           !.expired = Expired(age, f[1].ttl),
                                           !.at = IF Expired(age, f[1].ttl)
                                                  THEN "unlink_value" ELSE "load"])
    /\ UNCHANGED <<pipeline, rt, rl, fc, sf, jc>>

\* delete: cache_path.unlink(missing_ok=True)
cache_unlink_value ==
    /\ \E o \in CallsAt("unlink_value") :
          ca' = Move([ca EXCEPT !.blob[get_path(o.key)] = None], o,
                     [o EXCEPT !.at = "unlink_meta"])
    /\ UNCHANGED <<pipeline, rt, rl, fc, sf, jc>>

\* delete: meta_path.unlink(missing_ok=True); delete returns, and so does a
\* get that called it
cache_unlink_meta ==
    /\ \E o \in CallsAt("unlink_meta") :
          LET c == [ca EXCEPT !.meta[get_path(o.key)] = None] IN
          ca' = IF o.op = "delete"
                THEN ReturnFrom([c EXCEPT !.stored[o.key] = None], o, o, Absent)
                ELSE GetReturns(c, o, o, Absent)
    /\ UNCHANGED <<pipeline, rt, rl, fc, sf, jc>>

\* get: the cache file is opened and unpickled; a file that is gone or
\* empty raises, and get returns None
cache_get_load ==
    /\ \E o \in CallsAt("load") :
          LET f == ca.blob[get_path(o.key)] IN
          ca' = IF f = None \/ f[1].empty
                THEN GetReturns(ca, o, o, Absent)
                ELSE GetReturns(ca, o, [o EXCEPT !.from = f[1].by], f[1].value)
    /\ UNCHANGED <<pipeline, rt, rl, fc, sf, jc>>

\* get_or_compute: value = compute_func()
cache_compute ==
    /\ \E o \in CallsAt("compute"), value \in CacheValues :
          ca' = Move(ca, o, [o EXCEPT !.value = value, !.invoked = TRUE, !.at = "open_value"])
    /\ UNCHANGED <<pipeline, rt, rl, fc, sf, jc>>

\* set: open(cache_path, 'wb')
cache_set_open_value ==
    /\ \E o \in CallsAt("open_value") :
          ca' = Move([ca EXCEPT !.blob[get_path(o.key)] = Some(EmptyFile)], o,
                     [o EXCEPT !.at = "dump"])
    /\ UNCHANGED <<pipeline, rt, rl, fc, sf, jc>>

\* set: pickle.dump(value, f) and the file is closed; a value that cannot
\* be pickled raises, the exception is logged and set returns
cache_set_dump ==
    /\ \E o \in CallsAt("dump") :
          ca' = IF o.value = Unpicklable
                THEN SetReturns([ca EXCEPT !.stored[o.key] =
                                    Some([value |-> o.value, ttl |-> o.ttl,
                                          timestamp |-> ca.now])],
                                o, [o EXCEPT !.now = ca.now])
                ELSE Move([ca EXCEPT !.blob[get_path(o.key)] = Some(ValueFile(o.value, Mark(ca, o)))],
                          o, [o EXCEPT !.at = "open_meta"])
    /\ UNCHANGED <<pipeline, rt, rl, fc, sf, jc>>

\* set: the metadata is built with time.time() and open(meta_path, 'w')
cache_set_open_meta ==
    /\ \E o \in CallsAt("open_meta") :
          ca' = Move([ca EXCEPT !.meta[get_path(o.key)] = Some(EmptyFile)], o,
                     [o EXCEPT !.now = ca.now, !.at = "dump_meta"])
    /\ UNCHANGED <<pipeline, rt, rl, fc, sf, jc>>

\* set: json.dump(metadata, f) and the file is closed; set returns
cache_set_dump_meta ==
    /\ \E o \in CallsAt("dump_meta") :
          ca' = SetReturns(
                    [ca EXCEPT !.meta[get_path(o.key)] =
                                    Some(MetaFile(o.now, EffectiveTtl(o.ttl, ca.ttl), o.key, Mark(ca, o))),
                               !.stored[o.key] =
                                    Some([value |-> o.value, ttl |-> o.ttl,
                                          timestamp |-> o.now])],
                    o, o)
    /\ UNCHANGED <<pipeline, rt, rl, fc, sf, jc>>

\* the clock advances: between calls, or at any moment of overlapping calls
cache_tick ==
    /\ ca # Unused
    /\ ca.now < CacheHorizon
    /\ ca.concurrent \/ ca.running = {}
    /\ ca' = [ca EXCEPT !.now = @ + 1, !.last = None]
    /\ UNCHANGED <<pipeline, rt, rl, fc, sf, jc>>

CacheInit ==
    /\ NoPipeline
    /\ \E ttl \in CacheTtls, concurrent \in BOOLEAN : ca = NewFileCache(ttl, concurrent)
    /\ rt = Unused
    /\ rl = Unused
    /\ fc = Unused
    /\ sf = Unused
    /\ jc = Unused

CacheNext ==
    \/ cache_call
    \/ cache_get_exists
    \/ cache_get_read_meta
    \/ cache_unlink_value
    \/ cache_unlink_meta
    \/ cache_get_load
    \/ cache_compute
    \/ cache_set_open_value
    \/ cache_set_dump
    \/ cache_set_open_meta
    \/ cache_set_dump_meta
    \/ cache_tick

CacheSpec == CacheInit /\ [][CacheNext]_vars

(* ---- properties of FileCache ---- *)
\* a call of the kind op has just returned, with no other call running
JustReturned(op) ==
    /\ ca # Unused
    /\ ~ca.concurrent
    /\ ca.last # None
    /\ ca.last[1].call.op = op

\* the ttl of an entry as its set() asked for it: the argument, or the
\* ttl of the cache when the argument was left out
GivenTtl(ttl) == IF ttl = None THEN ca.ttl ELSE ttl[1]

\* the entry of a set() whose value the store can serialize
Entry(e) == e # None /\ e[1].value # Unpicklable

\* the entry e of a set() is not older than its ttl now
Fresh(e) == ca.now - e.timestamp <= GivenTtl(e.ttl)

\* C21: after set(key, v, ttl) of a value pickle can serialize, a get(key) returns v as long as
\* now - timestamp <= ttl, and a get(key) at a later time returns None and
\* leaves neither the cache file nor the metadata file of the key.
SetThenGetWithinTtl ==
    (JustReturned("get") /\ Entry(ca.last[1].call.prior)) =>
        LET call == ca.last[1].call
            e == call.prior[1]
            p == get_path(call.key)
        IN  IF Fresh(e)
            THEN ca.last[1].result = e.value
            ELSE /\ ca.last[1].result = Absent
                 /\ ca.blob[p] = None
                 /\ ca.meta[p] = None

\* the files of the key are the files of no other key
OwnFiles(key) == \A other \in CacheKeys : other # key => get_path(other) # get_path(key)

\* C22: get_or_compute(key, fn) calls fn exactly when there is no fresh
\* entry of the key; with a fresh entry it returns the stored value, and
\* without one it returns the result of fn and leaves it stored as the
\* entry of the key.  Stated for the values pickle can serialize, a key
\* with files of its own and entries whose ttl is not 0.
ComputeOnlyWhenNotFresh ==
    (/\ JustReturned("get_or_compute")
     /\ OwnFiles(ca.last[1].call.key)
     /\ ca.last[1].call.prior # None =>
            (Entry(ca.last[1].call.prior) /\ ca.last[1].call.prior[1].ttl # Some(0))
     /\ ca.last[1].call.value # Unpicklable) =>
        LET call == ca.last[1].call
            fresh == call.prior # None /\ Fresh(call.prior[1])
        IN  /\ call.invoked <=> ~fresh
            /\ fresh => ca.last[1].result = call.prior[1].value
            /\ ~fresh => /\ ca.last[1].result = call.value
                         /\ ca.stored[call.key] # None
                         /\ ca.stored[call.key][1].value = call.value

\* C23: a get(key) that overlaps a set(key) and returns a value has read
\* that value and the metadata it judged it by from the files of one set().
GetSeesOneSet ==
    (ca # Unused /\ ca.concurrent /\ ca.last # None) =>
        LET call == ca.last[1].call IN
        (call.op = "get" /\ call.hit) => call.from = call.metadata[1].by

\* C38: the entries of different keys are independent.  A get(key) only
\* returns a value that the last set() of that key stored, and a set() or a
\* delete() of another key does not change what it returns: with a fresh
\* entry of the key (a serializable value, a ttl that is not 0) it returns
\* the value of that entry.
KeysIndependent ==
    JustReturned("get") =>
        LET call == ca.last[1].call
            result == ca.last[1].result
        IN  /\ result # Absent =>
                  (call.prior # None /\ call.prior[1].value = result)
            /\ (Entry(call.prior) /\ call.prior[1].ttl # Some(0) /\ Fresh(call.prior[1])) =>
                  result = call.prior[1].value

\* C39: a set(key, value, ttl) with a ttl argument stores that ttl in the
\* metadata of the entry, 0 included, and the ttl of the cache is stored
\* only when the argument is left out.  Stated for the values pickle can
\* serialize.
SetStoresGivenTtl ==
    (JustReturned("set") /\ ca.last[1].call.value # Unpicklable) =>
        LET call == ca.last[1].call
            f == ca.meta[get_path(call.key)]
        IN  /\ f # None
            /\ f[1].key = call.key
            /\ f[1].ttl = GivenTtl(call.ttl)

(***************************************************************************)
(* utils/cache.py, JsonFileCache: one cache object, its file, and the      *)
(* calls made on it one after another.  Time is counted in seconds.        *)
(***************************************************************************)
MaxJsonOps == 4         \* calls made on the cache
JsonHorizon == 3        \* seconds the clock may advance

JsonTtls == {1, 2}

\* data handed to save(): a list, a tuple, None
JsonData == {"[1, 2]", "(1, 2)", Absent}

\* json.dump(data, default=str): the text written for data; a tuple is
\* written as an array
JsonDump(data) ==
    CASE data = "(1, 2)" -> "[1, 2]"
      [] data = Absent -> "null"
      [] OTHER -> data

\* json.load: the value read from a text; an array is read as a list
JsonLoad(text) == IF text = "null" THEN Absent ELSE text

NewJsonFileCache(ttl) ==
    [ ttl |-> ttl,
      now |-> 0,            \* time.time()
      file |-> None,        \* the file at file_path: timestamp and data
      calls |-> 0,          \* calls made so far
      saved |-> None,       \* the last save(): its data and its time
      last |-> None ]       \* the load() that has just returned

\* save(data)
json_save ==
    /\ jc # Unused
    /\ jc.calls < MaxJsonOps
    /\ \E data \in JsonData :
          jc' = [jc EXCEPT !.calls = @ + 1,
                           !.file = Some([timestamp |-> jc.now, data |-> JsonDump(data)]),
                           !.saved = Some([timestamp |-> jc.now, data |-> data]),
                           !.last = None]
    /\ UNCHANGED <<pipeline, rt, rl, fc, sf, ca>>

\* load()
json_load ==
    /\ jc # Unused
    /\ jc.calls < MaxJsonOps
    /\ LET result ==
              IF jc.file = None THEN Absent
              ELSE IF Expired(jc.now - jc.file[1].timestamp, jc.ttl) THEN Absent
              ELSE JsonLoad(jc.file[1].data)
       IN jc' = [jc EXCEPT !.calls = @ + 1, !.last = Some([result |-> result])]
    /\ UNCHANGED <<pipeline, rt, rl, fc, sf, ca>>

\* the clock advances
json_tick ==
    /\ jc # Unused
    /\ jc.now < JsonHorizon
    /\ jc' = [jc EXCEPT !.now = @ + 1, !.last = None]
    /\ UNCHANGED <<pipeline, rt, rl, fc, sf, ca>>

JsonInit ==
    /\ NoPipeline
    /\ \E ttl \in JsonTtls : jc = NewJsonFileCache(ttl)
    /\ rt = Unused
    /\ rl = Unused
    /\ fc = Unused
    /\ sf = Unused
    /\ ca = Unused

JsonNext ==
    \/ json_save
    \/ json_load
    \/ json_tick

JsonSpec == JsonInit /\ [][JsonNext]_vars

(* ---- properties of JsonFileCache ---- *)
\* C24: after save(data), of data JSON gives back as it was, a load()
\* returns data as long as now - timestamp <= ttl, and a load() at a later
\* time returns None and leaves no file, as FileCache.get does with the
\* files of an expired key.
JsonLoadAsFileCacheGet ==
    (jc # Unused /\ jc.last # None /\ jc.saved # None
        /\ JsonLoad(JsonDump(jc.saved[1].data)) = jc.saved[1].data) =>
        IF jc.now - jc.saved[1].timestamp <= jc.ttl
        THEN jc.last[1].result = jc.saved[1].data
        ELSE jc.last[1].result = Absent /\ jc.file = None

====
